---- MODULE Spec2Model ----
(***************************************************************************)
(* Model of the artifact cache engine of mono (internal/mono/cache.go).    *)
(*                                                                         *)
(* The filesystem is one map from absolute paths (tuples of path           *)
(* components) to nodes: directories, regular files (naming an inode) and  *)
(* symlinks (holding their literal target).  Inodes carry content and      *)
(* mtime, so that hardlink sharing, in-place writes and Chtimes are        *)
(* visible.  Each cache operation is a process whose steps are the         *)
(* filesystem calls of its Go code.                                        *)
(***************************************************************************)
EXTENDS Integers, Sequences, FiniteSets, TLC

VARIABLES
    fs,        \* absolute path -> node
    inodes,    \* inode number -> [content, mtime]
    nextIno,   \* next inode number to allocate
    flocks,    \* set of <<inode, process>>: flock(LOCK_EX) held on a lock file
    xdev,      \* TRUE iff ~/.mono is on another device than the project
    now,       \* time.Now(), advanced at every call
    cfg,       \* build.artifacts of the project: a list of ArtifactConfig
    overlap,   \* whether the processes' calls may run at the same time
    tools,     \* the key commands that run successfully on this machine
    host,      \* the machine and the project's build settings: the output of
               \* `ps -eo pid,command`, whether sccache is on PATH
               \* (CacheManager.SccacheAvailable), the BuildConfig, and the
               \* names of the files link(2) refuses to link (EPERM)
    stalled,   \* file operations blocked in the kernel: [src, dst, by]
    proc,      \* process -> its current call (program counter and locals)
    hist       \* the calls and external writes done so far, in return order

vars == <<fs, inodes, nextIno, flocks, xdev, now, cfg, overlap, tools, host, stalled, proc,
          hist>>

----------------------------------------------------------------------------
(* Bounds of the model.                                                    *)

\* calls (PrepareArtifactCache, StoreToCache, ... ) made in one behaviour
MaxCalls == 2
\* writes by build tools to workspace files in one behaviour
MaxWrites == 1
\* file operations that block in one behaviour
MaxStalls == 1

----------------------------------------------------------------------------
(* Go strings, as tuples of one-character strings.                         *)

HasSuffix(s, suffix) ==
    /\ Len(s) >= Len(suffix)
    /\ SubSeq(s, Len(s) - Len(suffix) + 1, Len(s)) = suffix

HasPrefix(s, prefix) ==
    /\ Len(s) >= Len(prefix)
    /\ SubSeq(s, 1, Len(prefix)) = prefix

Contains(s, substr) ==
    \E i \in 1..(Len(s) - Len(substr) + 1) :
        SubSeq(s, i, i + Len(substr) - 1) = substr

\* The spelling of every file name that occurs inside an artifact tree, and
\* of the names on the way to one.
Spell ==
    "lib" :> <<"l","i","b">>
    @@ "a.o" :> <<"a",".","o">>
    @@ "incremental" :> <<"i","n","c","r","e","m","e","n","t","a","l">>
    @@ "c" :> <<"c">>
    @@ "debug" :> <<"d","e","b","u","g">>
    @@ ".fingerprint" :> <<".","f","i","n","g","e","r","p","r","i","n","t">>
    @@ "k" :> <<"k">>
    @@ "dep-x" :> <<"d","e","p","-","x">>
    @@ ".bin" :> <<".","b","i","n">>
    @@ "t" :> <<"t">>
    @@ "ln" :> <<"l","n">>
    @@ ".cargo-lock" :> <<".","c","a","r","g","o","-","l","o","c","k">>
    @@ "p" :> <<"p">>
    @@ "w1" :> <<"w","1">>
    @@ "w2" :> <<"w","2">>
    @@ "target" :> <<"t","a","r","g","e","t">>

\* Byte values of the characters above, for the lexical order of a walk.
Code ==
    [ ch \in {"-", ".", "/", "a", "b", "c", "d", "e", "f", "g", "i", "k", "l",
              "m", "n", "o", "p", "r", "t", "u", "x"} |->
        CASE ch = "-" -> 45 [] ch = "." -> 46 [] ch = "/" -> 47
          [] ch = "a" -> 97 [] ch = "b" -> 98 [] ch = "c" -> 99
          [] ch = "d" -> 100 [] ch = "e" -> 101 [] ch = "f" -> 102
          [] ch = "g" -> 103 [] ch = "i" -> 105 [] ch = "k" -> 107
          [] ch = "l" -> 108 [] ch = "m" -> 109 [] ch = "n" -> 110
          [] ch = "o" -> 111 [] ch = "p" -> 112 [] ch = "r" -> 114
          [] ch = "t" -> 116 [] ch = "u" -> 117 [] ch = "x" -> 120 ]

RECURSIVE StrLess(_, _)
StrLess(a, b) ==
    IF b = <<>> THEN FALSE
    ELSE IF a = <<>> THEN TRUE
    ELSE IF Code[Head(a)] # Code[Head(b)] THEN Code[Head(a)] < Code[Head(b)]
    ELSE StrLess(Tail(a), Tail(b))

\* filepath.Walk order of two relative paths (tuples of names): each
\* directory's entries in lexical name order, a directory before its entries.
RECURSIVE WalkLess(_, _)
WalkLess(p, q) ==
    IF q = <<>> THEN FALSE
    ELSE IF p = <<>> THEN TRUE
    ELSE IF Head(p) # Head(q) THEN StrLess(Spell[Head(p)], Spell[Head(q)])
    ELSE WalkLess(Tail(p), Tail(q))

\* filepath.Rel(src, path) as a Go string: "." for the root itself, else the
\* names joined by "/".
RECURSIVE JoinSlash(_)
JoinSlash(rel) ==
    IF Len(rel) = 1 THEN Spell[rel[1]]
    ELSE Spell[rel[1]] \o <<"/">> \o JoinSlash(Tail(rel))

RelString(rel) == IF rel = <<>> THEN <<".">> ELSE JoinSlash(rel)

----------------------------------------------------------------------------
(* Skip rules.                                                             *)

shouldSkipCargoPath(relPath) ==
    IF HasSuffix(relPath, <<".","o">>) THEN TRUE
    ELSE IF HasSuffix(relPath, <<".","d">>) THEN TRUE
    ELSE IF \/ Contains(relPath, <<"/">> \o Spell["incremental"] \o <<"/">>)
            \/ HasPrefix(relPath, Spell["incremental"] \o <<"/">>) THEN TRUE
    ELSE IF relPath = Spell[".cargo-lock"] THEN TRUE
    ELSE FALSE

shouldSkipPath(relPath, artifactName) ==
    CASE artifactName = "cargo" -> shouldSkipCargoPath(relPath)
      [] OTHER -> FALSE

----------------------------------------------------------------------------
(* Paths and nodes of the filesystem.                                      *)

DirNode == [kind |-> "dir", ino |-> 0, target |-> ""]
FileNode(i) == [kind |-> "file", ino |-> i, target |-> ""]
LinkNode(tg) == [kind |-> "link", ino |-> 0, target |-> tg]

IsPrefix(p, q) == Len(p) <= Len(q) /\ SubSeq(q, 1, Len(p)) = p
Parent(p) == SubSeq(p, 1, Len(p) - 1)
\* filepath.Base
Base(p) == p[Len(p)]
\* filepath.Rel(src, path), as the tuple of names below src
Rel(src, path) == SubSeq(path, Len(src) + 1, Len(path))
\* src and everything beneath it
Under(f, src) == {q \in DOMAIN f : IsPrefix(src, q)}
Children(f, dir) == {q \in DOMAIN f : Len(q) = Len(dir) + 1 /\ IsPrefix(dir, q)}

Drop(f, S) == [q \in DOMAIN f \ S |-> f[q]]

\* os.Stat(path) succeeds and IsDir(): no path the engine stats is a symlink
dirExists(f, path) == path \in DOMAIN f /\ f[path].kind = "dir"
fileExists(f, path) == path \in DOMAIN f /\ f[path].kind = "file"

HomeDir == <<"home", ".mono">>
LocalCacheDir == HomeDir \o <<"cache_local">>

\* The device a path lives on: ~/.mono, or the project with its workspaces.
Device(path) == IF IsPrefix(<<"home">>, path) THEN "home" ELSE "proj"
CrossDevice(src, dst) == xdev /\ Device(src) # Device(dst)

\* The first 12 hex digits of SHA-256 of the root path: an injective digest.
ComputeProjectID(rootPath) == "id#" \o Base(rootPath)

GetProjectCacheDir(rootPath) == LocalCacheDir \o <<ComputeProjectID(rootPath)>>

GetArtifactCachePath(rootPath, artifactName, key) ==
    GetProjectCacheDir(rootPath) \o <<artifactName, key>>

\* one lock file for all the keys of an artifact
LockPathOfArtifact(cachePath) == Parent(cachePath) \o <<".lock">>

\* cachePath + ".lock"
LockPath(cachePath) == Parent(cachePath) \o <<Base(cachePath) \o ".lock">>

----------------------------------------------------------------------------
(* System calls, as functions of the filesystem map.                       *)

Prefixes(path) == {SubSeq(path, 1, i) : i \in 0..Len(path)}

\* os.MkdirAll: every missing directory of path is created
MkdirAllErr(f, path) ==
    IF \E q \in Prefixes(path) : q \in DOMAIN f /\ f[q].kind # "dir"
    THEN "ENOTDIR" ELSE "ok"
MkdirAll(f, path) ==
    [q \in DOMAIN f \cup Prefixes(path) |-> IF q \in DOMAIN f THEN f[q] ELSE DirNode]

\* os.RemoveAll
RemoveAll(f, path) == Drop(f, Under(f, path))

\* rename(2) of a directory
RenameErr(f, src, dst) ==
    IF ~dirExists(f, Parent(src)) \/ ~dirExists(f, Parent(dst)) THEN "ENOENT"
    ELSE IF CrossDevice(src, dst) THEN "EXDEV"
    ELSE IF src \notin DOMAIN f THEN "ENOENT"
    ELSE IF IsPrefix(src, dst) /\ src # dst THEN "EINVAL"
    ELSE IF dst \in DOMAIN f /\ f[src].kind = "dir" /\ f[dst].kind # "dir" THEN "ENOTDIR"
    ELSE IF dst \in DOMAIN f /\ Children(f, dst) # {} THEN "ENOTEMPTY"
    ELSE "ok"
Rename(f, src, dst) ==
    LET moved == Under(f, src)
        kept == Drop(Drop(f, Under(f, dst)), moved)
    IN  [q \in DOMAIN kept \cup {dst \o Rel(src, m) : m \in moved} |->
            IF IsPrefix(dst, q) THEN f[src \o Rel(dst, q)] ELSE kept[q]]

\* link(2); with fs.protected_hardlinks a file of another owner that the
\* caller cannot write is not linked
LinkErr(f, src, dst) ==
    IF src \notin DOMAIN f \/ ~dirExists(f, Parent(dst)) THEN "ENOENT"
    ELSE IF dst \in DOMAIN f THEN "EEXIST"
    ELSE IF CrossDevice(src, dst) THEN "EXDEV"
    ELSE IF Base(src) \in host.protected THEN "EPERM"
    ELSE "ok"

\* symlink(2)
SymlinkErr(f, dst) ==
    IF ~dirExists(f, Parent(dst)) THEN "ENOENT"
    ELSE IF dst \in DOMAIN f THEN "EEXIST"
    ELSE "ok"

isHardlinkNotSupported(err) == err \in {"EXDEV", "EOPNOTSUPP"}
isCrossDevice(err) == err = "EXDEV"

\* link count of an inode
Nlink(f, i) == Cardinality({q \in DOMAIN f : f[q].kind = "file" /\ f[q].ino = i})

\* Inodes still named by a path or held open under a lock.
LiveInodes(f, locks) ==
    {f[q].ino : q \in {r \in DOMAIN f : f[r].kind = "file"}} \cup {l[1] : l \in locks}
Reclaim(ino, f, locks) == [i \in DOMAIN ino \cap LiveInodes(f, locks) |-> ino[i]]

----------------------------------------------------------------------------
(* Tree replication.  A replication state st is the part of the world a    *)
(* walk changes: [fs, inodes, nextIno, err].                               *)

RECURSIVE SortWalk(_)
SortWalk(S) ==
    IF S = {} THEN <<>>
    ELSE LET m == CHOOSE x \in S : \A y \in S \ {x} : WalkLess(x, y)
         IN  <<m>> \o SortWalk(S \ {m})

\* the relative paths filepath.Walk(src) visits, in its order
WalkOf(f, src) == SortWalk({Rel(src, q) : q \in Under(f, src)})

Fail(st, e) == [st EXCEPT !.err = e]

copyFile(st, src, dst) ==
    IF src \notin DOMAIN st.fs THEN Fail(st, "ENOENT")
    ELSE IF ~dirExists(st.fs, Parent(dst)) THEN Fail(st, "ENOENT")
    ELSE IF dst \in DOMAIN st.fs /\ st.fs[dst].kind = "dir" THEN Fail(st, "EISDIR")
    ELSE IF dst \in DOMAIN st.fs /\ st.fs[dst].kind = "file"
    THEN \* os.Create truncates the file that is there and writes into it
         [st EXCEPT !.inodes[st.fs[dst].ino] =
             [content |-> st.inodes[st.fs[src].ino].content, mtime |-> now]]
    ELSE [st EXCEPT
             !.fs = (dst :> FileNode(st.nextIno)) @@ st.fs,
             !.inodes = (st.nextIno :>
                 [content |-> st.inodes[st.fs[src].ino].content, mtime |-> now])
                 @@ st.inodes,
             !.nextIno = st.nextIno + 1]

\* a replication that follows a symlink and links to what it resolves to
recreateSymlinkResolved(st, src, dst) ==
    LET e == SymlinkErr(st.fs, dst)
    IN  IF e = "ok" THEN [st EXCEPT !.fs = (dst :> LinkNode("real")) @@ st.fs]
        ELSE IF e = "EEXIST" THEN st
        ELSE Fail(st, e)

\* the symlink branch shared by HardlinkTree, linkOrCopyFile and copyDir
recreateSymlink(st, src, dst) ==
    LET e == SymlinkErr(st.fs, dst)
    IN  IF e = "ok" THEN [st EXCEPT !.fs = (dst :> LinkNode(st.fs[src].target)) @@ st.fs]
        ELSE IF e = "EEXIST" THEN st
        ELSE Fail(st, e)

\* a replication that copies where it could link
linkRegularCopying(st, src, dst) ==
    LET e == LinkErr(st.fs, src, dst)
    IN  IF e = "ok" \/ isHardlinkNotSupported(e) THEN copyFile(st, src, dst)
        ELSE IF e = "EEXIST" THEN st
        ELSE Fail(st, e)

\* the os.Link branch shared by HardlinkTree and linkOrCopyFile
linkRegular(st, src, dst) ==
    LET e == LinkErr(st.fs, src, dst)
    IN  IF e = "ok" THEN [st EXCEPT !.fs = (dst :> st.fs[src]) @@ st.fs]
        ELSE IF e = "EEXIST" THEN st
        ELSE IF isHardlinkNotSupported(e) THEN copyFile(st, src, dst)
        ELSE Fail(st, e)

\* a replication that copies every regular file instead of linking it
linkOrCopyFileCopying(st, src, dst) ==
    IF src \notin DOMAIN st.fs THEN Fail(st, "ENOENT")
    ELSE IF st.fs[src].kind = "link" THEN recreateSymlink(st, src, dst)
    ELSE copyFile(st, src, dst)

\* a replication that moves each file to its destination
linkOrCopyFileMoving(st, src, dst) ==
    IF src \notin DOMAIN st.fs THEN Fail(st, "ENOENT")
    ELSE IF ~dirExists(st.fs, Parent(dst)) THEN Fail(st, "ENOENT")
    ELSE [st EXCEPT !.fs = (dst :> st.fs[src]) @@ Drop(st.fs, {src})]

linkOrCopyFile(st, src, dst) ==
    IF src \notin DOMAIN st.fs THEN Fail(st, "ENOENT")
    ELSE IF st.fs[src].kind = "link" THEN recreateSymlink(st, src, dst)
    ELSE linkRegular(st, src, dst)

mkdirAllSt(st, path) ==
    IF MkdirAllErr(st.fs, path) # "ok" THEN Fail(st, MkdirAllErr(st.fs, path))
    ELSE [st EXCEPT !.fs = MkdirAll(st.fs, path)]

RECURSIVE HardlinkWalk(_, _, _, _)
HardlinkWalk(st, src, dst, todo) ==
    IF todo = <<>> \/ st.err # "ok" THEN st
    ELSE LET path == src \o Head(todo)
             dstPath == dst \o Head(todo)
             one == IF st.fs[path].kind = "dir" THEN mkdirAllSt(st, dstPath)
                    ELSE IF st.fs[path].kind = "link" THEN recreateSymlink(st, path, dstPath)
                    ELSE linkRegular(st, path, dstPath)
         IN  HardlinkWalk(one, src, dst, Tail(todo))

HardlinkTree(st, src, dst) ==
    IF src \notin DOMAIN st.fs THEN Fail(st, "ENOENT")
    ELSE HardlinkWalk(st, src, dst, WalkOf(st.fs, src))

RECURSIVE CopyWalk(_, _, _, _)
CopyWalk(st, src, dst, todo) ==
    IF todo = <<>> \/ st.err # "ok" THEN st
    ELSE LET path == src \o Head(todo)
             dstPath == dst \o Head(todo)
             one == IF st.fs[path].kind = "dir" THEN mkdirAllSt(st, dstPath)
                    ELSE IF st.fs[path].kind = "link" THEN recreateSymlink(st, path, dstPath)
                    ELSE copyFile(st, path, dstPath)
         IN  CopyWalk(one, src, dst, Tail(todo))

copyDir(st, src, dst) ==
    IF src \notin DOMAIN st.fs THEN Fail(st, "ENOENT")
    ELSE CopyWalk(st, src, dst, WalkOf(st.fs, src))

\* SeedDirectory's walk: a directory whose relative path with a trailing "/"
\* matches a skip rule is not entered; other entries are filtered one by one.
SkippedDir(f, src, rel, artifactName) ==
    /\ f[src \o rel].kind = "dir"
    /\ shouldSkipPath(RelString(rel) \o <<"/">>, artifactName)

Entered(f, src, rel, artifactName) ==
    \A i \in 0..(Len(rel) - 1) : ~SkippedDir(f, src, SubSeq(rel, 1, i), artifactName)

SeedDirs(f, src, artifactName) ==
    {rel \in {Rel(src, q) : q \in Under(f, src)} :
        /\ f[src \o rel].kind = "dir"
        /\ Entered(f, src, rel, artifactName)
        /\ ~SkippedDir(f, src, rel, artifactName)}

\* a walk that queues every file, whatever the skip rules say
SeedFilesUnfiltered(f, src, artifactName) ==
    {rel \in {Rel(src, q) : q \in Under(f, src)} :
        f[src \o rel].kind # "dir" /\ Entered(f, src, rel, artifactName)}

\* a walk that queues the files directly in src and does not descend
SeedFilesShallow(f, src, artifactName) ==
    {rel \in {Rel(src, q) : q \in Children(f, src)} :
        /\ f[src \o rel].kind # "dir"
        /\ ~shouldSkipPath(RelString(rel), artifactName)}

SeedFiles(f, src, artifactName) ==
    {rel \in {Rel(src, q) : q \in Under(f, src)} :
        /\ f[src \o rel].kind # "dir"
        /\ Entered(f, src, rel, artifactName)
        /\ ~shouldSkipPath(RelString(rel), artifactName)}

\* an apply phase that creates the destination itself and leaves the
\* directories beneath it to the file operations
MkdirEachTop(st, dst, todo) ==
    IF todo = <<>> THEN st ELSE mkdirAllSt(st, dst \o Head(todo))

RECURSIVE MkdirEach(_, _, _)
MkdirEach(st, dst, todo) ==
    IF todo = <<>> \/ st.err # "ok" THEN st
    ELSE MkdirEach(mkdirAllSt(st, dst \o Head(todo)), dst, Tail(todo))

----------------------------------------------------------------------------
(* Post-restore fixes.                                                     *)

\* the dep-* files touchDepFilesParallel collects below fingerprintDir
DepFiles(f, fingerprintDir) ==
    {q \in DOMAIN f :
        /\ Len(q) = Len(fingerprintDir) + 2
        /\ IsPrefix(fingerprintDir, q)
        /\ f[Parent(q)].kind = "dir"
        /\ f[q].kind # "dir"
        /\ HasPrefix(Spell[Base(q)], <<"d","e","p","-">>)}

\* os.Chtimes(path, now, now) on each of them
touchDepFilesParallel(st, fingerprintDir) ==
    [st EXCEPT !.inodes =
        [i \in DOMAIN st.inodes |->
            IF \E q \in DepFiles(st.fs, fingerprintDir) :
                   st.fs[q].kind = "file" /\ st.fs[q].ino = i
            THEN [st.inodes[i] EXCEPT !.mtime = now]
            ELSE st.inodes[i]]]

touchProfile(st, targetDir, profile) ==
    IF dirExists(st.fs, targetDir \o <<profile, ".fingerprint">>)
    THEN touchDepFilesParallel(st, targetDir \o <<profile, ".fingerprint">>)
    ELSE st

touchCargoFingerprints(st, targetDir) ==
    touchProfile(touchProfile(st, targetDir, "debug"), targetDir, "release")

cleanNodeModulesBin(st, nodeModulesDir) ==
    IF dirExists(st.fs, nodeModulesDir \o <<".bin">>)
    THEN [st EXCEPT !.fs = RemoveAll(st.fs, nodeModulesDir \o <<".bin">>)]
    ELSE st

ApplyPostRestoreFixes(st, artifactName, envPath) ==
    CASE artifactName = "cargo" -> touchCargoFingerprints(st, envPath)
      [] artifactName \in {"npm", "yarn", "pnpm", "bun"} -> cleanNodeModulesBin(st, envPath)
      [] OTHER -> st

----------------------------------------------------------------------------
(* Artifacts, workspaces and fingerprints.                                 *)

CargoArtifact ==
    [name |-> "cargo", keyFiles |-> <<"Cargo.lock">>,
     keyCommands |-> <<"rustc --version">>, paths |-> << <<"target">> >>]

NpmArtifact ==
    [name |-> "npm", keyFiles |-> <<"package-lock.json">>,
     keyCommands |-> <<"node --version">>, paths |-> << <<"node_modules">> >>]

\* a configured artifact with two materialized paths
GenArtifact ==
    [name |-> "gen", keyFiles |-> <<"gen.lock">>,
     keyCommands |-> <<>>, paths |-> << <<"out">>, <<"dist">> >>]

\* a configured artifact whose two materialized paths have one base name
TwinArtifact ==
    [name |-> "twin", keyFiles |-> <<"twin.lock">>,
     keyCommands |-> <<>>, paths |-> << <<"a", "out">>, <<"b", "out">> >>]

RootPath == <<"p">>

\* standard output of the key commands in this environment
CmdOutput == "rustc --version" :> "r1" @@ "node --version" :> "n1"

\* The first 16 hex digits of SHA-256 of the bytes: an injective digest.
Sha256Hex16(bytes) == "#" \o bytes

RECURSIVE KeyFileBytes(_, _, _, _)
KeyFileBytes(f, ino, keyFiles, envPath) ==
    IF keyFiles = <<>> THEN ""
    ELSE LET fullPath == envPath \o <<Head(keyFiles)>>
             rest == KeyFileBytes(f, ino, Tail(keyFiles), envPath)
         IN  IF fileExists(f, fullPath) THEN ino[f[fullPath].ino].content \o rest
             ELSE rest

RECURSIVE KeyCommandBytes(_)
KeyCommandBytes(cmds) ==
    IF cmds = <<>> THEN "" ELSE CmdOutput[Head(cmds)] \o KeyCommandBytes(Tail(cmds))

\* a fingerprint that also hashes something volatile: the time of the call
ComputeCacheKeyVolatile(f, ino, artifact, envPath) ==
    IF \E i \in 1..Len(artifact.keyCommands) : artifact.keyCommands[i] \notin tools THEN ""
    ELSE Sha256Hex16(KeyFileBytes(f, ino, artifact.keyFiles, envPath)
                     \o KeyCommandBytes(artifact.keyCommands)
                     \o (IF now % 2 = 0 THEN "even" ELSE "odd"))

\* a fingerprint of the key files alone
ComputeCacheKeyFilesOnly(f, ino, artifact, envPath) ==
    IF \E i \in 1..Len(artifact.keyFiles) : dirExists(f, envPath \o <<artifact.keyFiles[i]>>)
    THEN ""
    ELSE IF \E i \in 1..Len(artifact.keyCommands) : artifact.keyCommands[i] \notin tools THEN ""
    ELSE Sha256Hex16(KeyFileBytes(f, ino, artifact.keyFiles, envPath))

\* the key, or "" with an error: when a key file is there and cannot be read
\* (os.Open opens a directory, io.Copy then fails), when a key command
\* exits non-zero
ComputeCacheKey(f, ino, artifact, envPath) ==
    IF \E i \in 1..Len(artifact.keyFiles) : dirExists(f, envPath \o <<artifact.keyFiles[i]>>)
    THEN ""
    ELSE IF \E i \in 1..Len(artifact.keyCommands) : artifact.keyCommands[i] \notin tools THEN ""
    ELSE Sha256Hex16(KeyFileBytes(f, ino, artifact.keyFiles, envPath)
                     \o KeyCommandBytes(artifact.keyCommands))

\* a check that looks for no marker at all
isBuildInProgressNever(f, envPath, artifact) == FALSE

isBuildInProgress(f, envPath, artifact) ==
    CASE artifact.name = "cargo" -> fileExists(f, envPath \o <<"target", ".cargo-lock">>)
      [] OTHER -> FALSE

----------------------------------------------------------------------------
(* Processes.  A process is idle or inside one call; its record holds the  *)
(* call's arguments and the locals of the Go functions on its stack.       *)

\* What an observer sees of the artifact trees below base: each path with
\* its kind, a regular file's content and a symlink's target.
Describe(f, ino, base, q) ==
    [rel |-> Rel(base, q), kind |-> f[q].kind,
     content |-> IF f[q].kind = "file" THEN ino[f[q].ino].content ELSE "",
     target |-> f[q].target]

TreeAt(f, ino, base, paths) ==
    {Describe(f, ino, base, q) :
        q \in UNION {Under(f, base \o paths[j]) : j \in 1..Len(paths)}}

Procs == {"p1", "p2"}

\* each mono process is invoked for one environment (MONO_ENV_PATH)
EnvPath(p) == IF p = "p1" THEN <<"p", "w1">> ELSE <<"p", "w2">>

Idle ==
    [pc |-> "idle", op |-> "", env |-> <<>>, hb |-> FALSE, ai |-> 0, pi |-> 0,
     key |-> "", src |-> <<>>, dst |-> <<>>, dirs |-> <<>>, files |-> {}, lock |-> 0,
     pre |-> {}, moved |-> 0, fresh |-> FALSE, todo |-> {}, list |-> {},
     pool |-> <<>>]

World == [fs |-> fs, inodes |-> inodes, nextIno |-> nextIno, err |-> "ok"]

\* the world after a step: unreferenced inodes are reclaimed
Apply(st, locks) ==
    /\ fs' = st.fs
    /\ nextIno' = st.nextIno
    /\ flocks' = locks
    /\ inodes' = Reclaim(st.inodes, st.fs, locks)

Goto(p, next) == proc' = [proc EXCEPT ![p] = next] /\ hist' = hist

\* the call returns res, an error that wraps cause (%w) or a result
ReturnErr(p, res, cause) ==
    /\ proc' = [proc EXCEPT ![p] = Idle]
    /\ hist' = Append(hist, [op |-> proc[p].op, env |-> proc[p].env, ai |-> proc[p].ai,
                             hb |-> proc[p].hb, key |-> proc[p].key, pre |-> proc[p].pre,
                             moved |-> proc[p].moved, res |-> res, err |-> cause])

Return(p, res) == ReturnErr(p, res, "")

Started == Cardinality({i \in 1..Len(hist) : hist[i].op \notin {"WriteInPlace", "WriteReplace"}})
           + Cardinality({p \in Procs : proc[p].pc # "idle"})
Written == Cardinality({i \in 1..Len(hist) : hist[i].op \in {"WriteInPlace", "WriteReplace"}})

\* an idle process starts a call; where the scenario has the calls made one
\* after the other, only when no other call is running
CanCall(p) ==
    /\ proc[p].pc = "idle"
    /\ Started < MaxCalls
    /\ overlap \/ \A q \in Procs : proc[q].pc = "idle"

Artifact(P) == cfg[P.ai]
CachePath(P) == GetArtifactCachePath(RootPath, Artifact(P).name, P.key)
\* a seeding that takes the workspace's own tree
LocalPathOfEnv(P) == P.env \o Artifact(P).paths[P.pi]

\* the artifact's current materialized path: in the workspace, or for
\* SeedFromRoot in the project root
LocalPath(P) == (IF P.op = "Seed" THEN RootPath ELSE P.env) \o Artifact(P).paths[P.pi]
\* a cache entry with one child whatever the path is called
TargetInCacheUnnamed(P) == CachePath(P) \o <<"tree">>

TargetInCache(P) == CachePath(P) \o <<Base(LocalPath(P))>>

----------------------------------------------------------------------------
(* PrepareArtifactCache, then StoreToCache on a miss or RestoreFromCache   *)
(* on a hit, for one configured artifact: the caller's flow at init.       *)

CallStore(p, env, ai) ==
    /\ CanCall(p)
    /\ proc' = [proc EXCEPT ![p] = [Idle EXCEPT !.pc = "prepare", !.op = "Store",
                                                   !.env = env, !.ai = ai,
                                                   !.pre = TreeAt(fs, inodes, env, cfg[ai].paths)]]
    /\ now' = now + 1
    /\ UNCHANGED <<fs, inodes, nextIno, flocks, xdev, cfg, overlap, tools, host, stalled, hist>>

CallRestore(p, env, ai) ==
    /\ CanCall(p)
    /\ proc' = [proc EXCEPT ![p] = [Idle EXCEPT !.pc = "prepare", !.op = "Restore",
                                                   !.env = env, !.ai = ai]]
    /\ now' = now + 1
    /\ UNCHANGED <<fs, inodes, nextIno, flocks, xdev, cfg, overlap, tools, host, stalled, hist>>

\* one iteration of PrepareArtifactCache: the entry's Key and Hit
\* a lookup that takes an entry of any key of the artifact for a hit
PrepareArtifactCacheAnyKey(p) ==
    LET P == proc[p]
        key == ComputeCacheKey(fs, inodes, Artifact(P), P.env)
        hit == \E q \in Children(fs, GetProjectCacheDir(RootPath) \o <<Artifact(P).name>>) :
                   fs[q].kind = "dir"
    IN  /\ P.pc = "prepare"
        /\ IF key = "" THEN Return(p, "failed to run key command")
           ELSE IF P.op = "Store"
           THEN IF hit THEN Return(p, "hit")
                ELSE Goto(p, [P EXCEPT !.key = key, !.pc = "store_mkdir"])
           ELSE IF hit THEN Goto(p, [P EXCEPT !.key = key, !.pi = 1, !.pc = "restore_src"])
                ELSE Return(p, "miss")
        /\ UNCHANGED <<fs, inodes, nextIno, flocks, xdev, now, cfg, overlap, tools, host, stalled>>

PrepareArtifactCache(p) ==
    LET P == proc[p]
        key == ComputeCacheKey(fs, inodes, Artifact(P), P.env)
        hit == dirExists(fs, GetArtifactCachePath(RootPath, Artifact(P).name, key))
    IN  /\ P.pc = "prepare"
        /\ IF key = "" THEN Return(p, "failed to run key command")
           ELSE IF P.op = "Store"
           THEN IF hit THEN Return(p, "hit")
                ELSE Goto(p, [P EXCEPT !.key = key, !.pc = "store_mkdir"])
           ELSE IF hit THEN Goto(p, [P EXCEPT !.key = key, !.pi = 1, !.pc = "restore_src"])
                ELSE Return(p, "miss")
        /\ UNCHANGED <<fs, inodes, nextIno, flocks, xdev, now, cfg, overlap, tools, host, stalled>>

StoreMkdir(p) ==
    LET P == proc[p]
    IN  /\ P.pc = "store_mkdir"
        /\ IF MkdirAllErr(fs, CachePath(P)) # "ok"
           THEN Return(p, "failed to create cache dir") /\ UNCHANGED fs
           ELSE fs' = MkdirAll(fs, CachePath(P))
                /\ Goto(p, [P EXCEPT !.pi = 1, !.pc = "store_path"])
        /\ UNCHANGED <<inodes, nextIno, flocks, xdev, now, cfg, overlap, tools, host, stalled>>

\* the loop head of StoreToCache: the next workspace path that exists
StorePath(p) ==
    LET P == proc[p]
    IN  /\ P.pc = "store_path"
        /\ IF P.pi > Len(Artifact(P).paths) THEN Return(p, "ok")
           ELSE IF ~dirExists(fs, LocalPath(P)) THEN Goto(p, [P EXCEPT !.pi = P.pi + 1])
           ELSE Goto(p, [P EXCEPT !.pc = "store_rename"])
        /\ UNCHANGED <<fs, inodes, nextIno, flocks, xdev, now, cfg, overlap, tools, host, stalled>>

StoreRename(p) ==
    LET P == proc[p]
    IN  /\ P.pc = "store_rename"
        /\ IF RenameErr(fs, LocalPath(P), TargetInCache(P)) # "ok"
           THEN Return(p, "failed to move to cache") /\ UNCHANGED fs
           ELSE fs' = Rename(fs, LocalPath(P), TargetInCache(P))
                /\ Goto(p, [P EXCEPT !.moved = P.moved + 1, !.pc = "store_link"])
        /\ inodes' = Reclaim(inodes, fs', flocks)
        /\ UNCHANGED <<nextIno, flocks, xdev, now, cfg, overlap, tools, host, stalled>>

StoreHardlinkBack(p) ==
    LET P == proc[p]
        st == HardlinkTree(World, TargetInCache(P), LocalPath(P))
    IN  /\ P.pc = "store_link"
        /\ Apply(st, flocks)
        /\ IF st.err # "ok" THEN Return(p, "failed to hardlink back from cache")
           ELSE Goto(p, [P EXCEPT !.pi = P.pi + 1, !.pc = "store_path"])
        /\ UNCHANGED <<xdev, now, cfg, overlap, tools, host, stalled>>

----------------------------------------------------------------------------
(* RestoreFromCache and SeedDirectory.                                     *)

RestoreSrc(p) ==
    LET P == proc[p]
        byBase == CachePath(P) \o <<Base(LocalPath(P))>>
        srcPath == IF dirExists(fs, byBase) THEN byBase
                   ELSE CachePath(P) \o <<Artifact(P).name>>
    IN  /\ P.pc = "restore_src"
        /\ IF P.pi > Len(Artifact(P).paths) THEN Return(p, "ok")
           ELSE Goto(p, [P EXCEPT !.src = srcPath, !.dst = LocalPath(P),
                                  !.pc = "restore_remove"])
        /\ UNCHANGED <<fs, inodes, nextIno, flocks, xdev, now, cfg, overlap, tools, host, stalled>>

\* a restore that replicates over what the workspace holds
RestoreRemoveNothing(p) ==
    LET P == proc[p]
    IN  /\ P.pc = "restore_remove"
        /\ Goto(p, [P EXCEPT !.pc = "seed_walk"])
        /\ UNCHANGED <<fs, inodes, nextIno, flocks, xdev, now, cfg, overlap, tools, host, stalled>>

\* os.RemoveAll(envPath)
RestoreRemove(p) ==
    LET P == proc[p]
    IN  /\ P.pc = "restore_remove"
        /\ fs' = RemoveAll(fs, P.dst)
        /\ inodes' = Reclaim(inodes, fs', flocks)
        /\ Goto(p, [P EXCEPT !.pc = "seed_walk"])
        /\ UNCHANGED <<nextIno, flocks, xdev, now, cfg, overlap, tools, host, stalled>>

\* SeedDirectory returned an error: RestoreFromCache returns it; seedToCache
\* first removes what it created in the cache.
SeedFailed(p, st) ==
    IF proc[p].op = "Restore"
    THEN Apply(st, flocks) /\ ReturnErr(p, "failed to restore cache", st.err)
    ELSE Apply([st EXCEPT !.fs = RemoveAll(st.fs, proc[p].dst)], flocks)
         /\ ReturnErr(p, "failed to seed from root", st.err)

\* the walk phase: the directories and files to replicate
SeedWalk(p) ==
    LET P == proc[p]
    IN  /\ P.pc = "seed_walk"
        /\ IF P.src \notin DOMAIN fs
           THEN SeedFailed(p, Fail(World, "ENOENT"))
           ELSE /\ Goto(p, [P EXCEPT
                      !.fresh = P.dst \notin DOMAIN fs,
                      !.dirs = SortWalk(SeedDirs(fs, P.src, Artifact(P).name)),
                      !.files = SeedFiles(fs, P.src, Artifact(P).name),
                      !.pc = "seed_mkdir"])
                /\ UNCHANGED <<fs, inodes, nextIno, flocks>>
        /\ UNCHANGED <<xdev, now, cfg, overlap, tools, host, stalled>>

\* SeedDirectory returns nil to RestoreFromCache or to seedToCache
SeedReturned(P) ==
    IF P.op = "Restore" THEN [P EXCEPT !.files = {}, !.pc = "restore_fix"]
    ELSE [P EXCEPT !.files = {}, !.pi = P.pi + 1, !.pc = "seed_path"]

\* the apply phase begins: every collected directory is created
SeedMkdir(p) ==
    LET P == proc[p]
        st == MkdirEach(World, P.dst, P.dirs)
    IN  /\ P.pc = "seed_mkdir"
        /\ IF st.err # "ok" THEN SeedFailed(p, st)
           ELSE Apply(st, flocks)
                /\ Goto(p, IF P.files = {} THEN SeedReturned(P)
                           ELSE [P EXCEPT !.pc = "seed_files"])
        /\ UNCHANGED <<xdev, now, cfg, overlap, tools, host, stalled>>

\* the file operations of p's SeedDirectory whose worker still waits for them
Waiting(p) == {t \in stalled : t.by = p /\ t.state = "waited"}
\* every waiting worker of p has given up its operation
Abandoned(p) == (stalled \ Waiting(p)) \cup {[t EXCEPT !.state = "abandoned"] : t \in Waiting(p)}

\* a worker links or copies one of the queued files; the workers run in
\* parallel, so the files complete in any order.  g.Wait() returns when the
\* queue is drained and no worker waits for a file; after a first error it
\* returns once the waiting workers have timed out.
SeedFile(p) ==
    LET P == proc[p]
    IN  /\ P.pc = "seed_files"
        /\ \E rel \in P.files :
              LET st == linkOrCopyFile(World, P.src \o rel, P.dst \o rel)
              IN  IF st.err # "ok" THEN SeedFailed(p, st) /\ stalled' = Abandoned(p)
                  ELSE Apply(st, flocks)
                       /\ Goto(p, IF P.files = {rel} /\ Waiting(p) = {} THEN SeedReturned(P)
                                  ELSE [P EXCEPT !.files = P.files \ {rel}])
                       /\ stalled' = stalled
        /\ UNCHANGED <<xdev, now, cfg, overlap, tools, host>>

\* linkOrCopyFileWithTimeout starts the operation in a goroutine, and the
\* operation blocks (a hung filesystem): the worker waits in its select while
\* the other workers go on with the queue
FileStall(p) ==
    LET P == proc[p]
    IN  /\ P.pc = "seed_files"
        /\ Cardinality(stalled) < MaxStalls
        /\ \E rel \in P.files :
              /\ stalled' = stalled \cup {[src |-> P.src \o rel, dst |-> P.dst \o rel,
                                          by |-> p, state |-> "waited"]}
              /\ Goto(p, [P EXCEPT !.files = P.files \ {rel}])
        /\ UNCHANGED <<fs, inodes, nextIno, flocks, xdev, now, cfg, overlap, tools, host>>

\* a worker that keeps waiting for done and has no timeout case
FileTimeoutNever(p) ==
    /\ proc[p].pc = "seed_files"
    /\ Waiting(p) # {}
    /\ UNCHANGED vars

\* time.After(timeout) fires in the worker's select: the worker returns the
\* timeout error, which cancels the group, and SeedDirectory returns it; the
\* goroutine of the operation is left behind
FileTimeout(p) ==
    /\ proc[p].pc = "seed_files"
    /\ Waiting(p) # {}
    /\ stalled' = Abandoned(p)
    /\ SeedFailed(p, Fail(World, "operation timed out"))
    /\ UNCHANGED <<xdev, now, cfg, overlap, tools, host>>

\* the blocked operation of an abandoned goroutine completes after all; its
\* result goes to the buffered channel nobody reads
StalledTaskEnds ==
    \E t \in stalled :
        /\ t.state = "abandoned"
        /\ Apply([linkOrCopyFile(World, t.src, t.dst) EXCEPT !.err = "ok"], flocks)
        /\ stalled' = (stalled \ {t}) \cup {[t EXCEPT !.state = "done"]}
        /\ UNCHANGED <<xdev, now, cfg, overlap, tools, host, proc, hist>>

RestoreFix(p) ==
    LET P == proc[p]
        st == ApplyPostRestoreFixes(World, Artifact(P).name, P.dst)
    IN  /\ P.pc = "restore_fix"
        /\ Apply(st, flocks)
        /\ Goto(p, [P EXCEPT !.pi = P.pi + 1, !.pc = "restore_src"])
        /\ UNCHANGED <<xdev, now, cfg, overlap, tools, host, stalled>>

----------------------------------------------------------------------------
(* Sync.                                                                   *)

CallSync(p, env, hardlinkBack) ==
    /\ CanCall(p)
    /\ proc' = [proc EXCEPT ![p] = [Idle EXCEPT !.pc = "sync_check", !.op = "Sync",
                                                   !.env = env, !.hb = hardlinkBack, !.ai = 1]]
    /\ now' = now + 1
    /\ UNCHANGED <<fs, inodes, nextIno, flocks, xdev, cfg, overlap, tools, host, stalled, hist>>

\* Sync's loop head, then syncArtifact up to its cache key
SyncCheck(p) ==
    LET P == proc[p]
    IN  /\ P.pc = "sync_check"
        /\ IF P.ai > Len(cfg) THEN Return(p, "ok")
           ELSE IF isBuildInProgress(fs, P.env, Artifact(P))
           THEN Return(p, "build in progress")
           ELSE IF ComputeCacheKey(fs, inodes, Artifact(P), P.env) = ""
           THEN Return(p, "failed to compute cache key")
           ELSE Goto(p, [P EXCEPT !.key = ComputeCacheKey(fs, inodes, Artifact(P), P.env),
                                  !.pc = "sync_hit"])
        /\ UNCHANGED <<fs, inodes, nextIno, flocks, xdev, now, cfg, overlap, tools, host, stalled>>

\* the dirExists(cachePath) test of syncArtifact; pre keeps, for the
\* properties, the trees of the artifacts found not cached
SyncHit(p) ==
    LET P == proc[p]
    IN  /\ P.pc = "sync_hit"
        /\ IF dirExists(fs, CachePath(P))
           THEN Goto(p, [P EXCEPT !.ai = P.ai + 1, !.pc = "sync_check"])
           ELSE Goto(p, [P EXCEPT !.pi = 1, !.pc = "sync_path",
                                  !.pre = P.pre \cup TreeAt(fs, inodes, P.env, Artifact(P).paths)])
        /\ UNCHANGED <<fs, inodes, nextIno, flocks, xdev, now, cfg, overlap, tools, host, stalled>>

SyncPath(p) ==
    LET P == proc[p]
    IN  /\ P.pc = "sync_path"
        /\ IF P.pi > Len(Artifact(P).paths)
           THEN Goto(p, [P EXCEPT !.ai = P.ai + 1, !.pc = "sync_check"])
           ELSE IF ~dirExists(fs, LocalPath(P)) THEN Goto(p, [P EXCEPT !.pi = P.pi + 1])
           ELSE Goto(p, [P EXCEPT !.pc = "move_lock"])
        /\ UNCHANGED <<fs, inodes, nextIno, flocks, xdev, now, cfg, overlap, tools, host, stalled>>

\* moveToCache returned nil for this path
NextPath(P) == [P EXCEPT !.pi = P.pi + 1, !.lock = 0, !.pc = "sync_path"]
\* a moveToCache that returns with the lock file open and locked
ReleasedNever(p) == flocks

\* releaseCacheLock, deferred in moveToCache
Released(p) == flocks \ {<<proc[p].lock, p>>}

\* acquireCacheLock: the lock file is created if absent and flock'ed without
\* blocking; a held lock gives a nil handle and moveToCache returns nil
MoveLock(p) ==
    LET P == proc[p]
        lockPath == LockPath(CachePath(P))
        made == MkdirAll(fs, Parent(lockPath))
        st == IF lockPath \in DOMAIN made THEN [World EXCEPT !.fs = made]
              ELSE [World EXCEPT !.fs = (lockPath :> FileNode(nextIno)) @@ made,
                                 !.inodes = (nextIno :> [content |-> "", mtime |-> now]) @@ inodes,
                                 !.nextIno = nextIno + 1]
        f == st.fs[lockPath].ino
    IN  /\ P.pc = "move_lock"
        /\ IF MkdirAllErr(fs, Parent(lockPath)) # "ok"
           THEN Return(p, "failed to sync") /\ UNCHANGED <<fs, inodes, nextIno, flocks>>
           ELSE IF \E l \in flocks : l[1] = f
           THEN Apply(st, flocks) /\ Goto(p, NextPath(P))
           ELSE Apply(st, flocks \cup {<<f, p>>})
                /\ Goto(p, [P EXCEPT !.lock = f, !.pc = "move_target"])
        /\ UNCHANGED <<xdev, now, cfg, overlap, tools, host, stalled>>

MoveTarget(p) ==
    LET P == proc[p]
    IN  /\ P.pc = "move_target"
        /\ IF dirExists(fs, TargetInCache(P))
           THEN Apply(World, Released(p)) /\ Goto(p, NextPath(P))
           ELSE Goto(p, [P EXCEPT !.pc = "move_mkdir"])
                /\ UNCHANGED <<fs, inodes, nextIno, flocks>>
        /\ UNCHANGED <<xdev, now, cfg, overlap, tools, host, stalled>>

MoveMkdir(p) ==
    LET P == proc[p]
    IN  /\ P.pc = "move_mkdir"
        /\ IF MkdirAllErr(fs, CachePath(P)) # "ok"
           THEN Apply(World, Released(p)) /\ Return(p, "failed to sync")
           ELSE Apply([World EXCEPT !.fs = MkdirAll(fs, CachePath(P))], flocks)
                /\ Goto(p, [P EXCEPT !.pc = "move_rename"])
        /\ UNCHANGED <<xdev, now, cfg, overlap, tools, host, stalled>>

MoveRename(p) ==
    LET P == proc[p]
        e == RenameErr(fs, LocalPath(P), TargetInCache(P))
    IN  /\ P.pc = "move_rename"
        /\ IF e = "ok"
           THEN IF P.hb
                THEN Apply([World EXCEPT !.fs = Rename(fs, LocalPath(P), TargetInCache(P))], flocks)
                     /\ Goto(p, [P EXCEPT !.moved = P.moved + 1, !.pc = "move_link"])
                ELSE Apply([World EXCEPT !.fs = Rename(fs, LocalPath(P), TargetInCache(P))],
                           Released(p))
                     /\ Goto(p, NextPath([P EXCEPT !.moved = P.moved + 1]))
           ELSE IF isCrossDevice(e)
           THEN Goto(p, [P EXCEPT !.pc = "move_copy"])
                /\ UNCHANGED <<fs, inodes, nextIno, flocks>>
           ELSE Apply(World, Released(p)) /\ Return(p, "failed to sync")
        /\ UNCHANGED <<xdev, now, cfg, overlap, tools, host, stalled>>

\* copyToCache, after a cross-device rename error
MoveCopy(p) ==
    LET P == proc[p]
        st == copyDir(World, LocalPath(P), TargetInCache(P))
    IN  /\ P.pc = "move_copy"
        /\ IF st.err # "ok" THEN Apply(st, Released(p)) /\ Return(p, "failed to sync")
           ELSE IF P.hb
           THEN Apply(st, Released(p)) /\ Goto(p, NextPath([P EXCEPT !.moved = P.moved + 1]))
           ELSE Apply([st EXCEPT !.fs = RemoveAll(st.fs, LocalPath(P))], Released(p))
                /\ Goto(p, NextPath([P EXCEPT !.moved = P.moved + 1]))
        /\ UNCHANGED <<xdev, now, cfg, overlap, tools, host, stalled>>

\* HardlinkTree back into the workspace; on failure the recovery renames the
\* cache copy back and, whether or not that rename succeeded, removes the
\* cache directory
MoveHardlinkBack(p) ==
    LET P == proc[p]
        st == HardlinkTree(World, TargetInCache(P), LocalPath(P))
        recoverErr == RenameErr(st.fs, TargetInCache(P), LocalPath(P))
        recovered == IF recoverErr = "ok"
                     THEN Rename(st.fs, TargetInCache(P), LocalPath(P)) ELSE st.fs
    IN  /\ P.pc = "move_link"
        /\ IF st.err = "ok" THEN Apply(st, Released(p)) /\ Goto(p, NextPath(P))
           ELSE Apply([st EXCEPT !.fs = RemoveAll(recovered, CachePath(P))], Released(p))
                /\ ReturnErr(p, IF recoverErr # "ok"
                                THEN "failed to hardlink back and recovery failed"
                                ELSE "failed to hardlink back, recovered", st.err)
        /\ UNCHANGED <<xdev, now, cfg, overlap, tools, host, stalled>>

----------------------------------------------------------------------------
(* SeedFromRoot.                                                           *)

CallSeed(p, env) ==
    /\ CanCall(p)
    /\ proc' = [proc EXCEPT ![p] = [Idle EXCEPT !.pc = "seed_art", !.op = "Seed",
                                                   !.env = env, !.ai = 1]]
    /\ now' = now + 1
    /\ UNCHANGED <<fs, inodes, nextIno, flocks, xdev, cfg, overlap, tools, host, stalled, hist>>

NextArtifact(P) == [P EXCEPT !.ai = P.ai + 1, !.pc = "seed_art"]

\* SeedFromRoot's loop head, then seedArtifactFromRoot up to the hit check
SeedArtifact(p) ==
    LET P == proc[p]
        envKey == ComputeCacheKey(fs, inodes, Artifact(P), P.env)
    IN  /\ P.pc = "seed_art"
        /\ IF P.ai > Len(cfg) THEN Return(p, "ok")
           ELSE IF RootPath = P.env THEN Goto(p, NextArtifact(P))
           ELSE IF envKey = "" THEN Return(p, "failed to compute cache key for env")
           ELSE IF dirExists(fs, GetArtifactCachePath(RootPath, Artifact(P).name, envKey))
           THEN Goto(p, NextArtifact(P))
           ELSE Goto(p, [P EXCEPT !.key = envKey, !.pc = "seed_root"])
        /\ UNCHANGED <<fs, inodes, nextIno, flocks, xdev, now, cfg, overlap, tools, host, stalled>>

\* a check that seeds from the root whatever its fingerprint is
SeedRootCheckAnyKey(p) ==
    LET P == proc[p]
        rootKey == ComputeCacheKey(fs, inodes, Artifact(P), RootPath)
    IN  /\ P.pc = "seed_root"
        /\ IF rootKey = "" THEN Return(p, "failed to compute cache key for root")
           ELSE IF isBuildInProgress(fs, RootPath, Artifact(P)) THEN Goto(p, NextArtifact(P))
           ELSE Goto(p, [P EXCEPT !.pi = 1, !.pc = "seed_path"])
        /\ UNCHANGED <<fs, inodes, nextIno, flocks, xdev, now, cfg, overlap, tools, host, stalled>>

\* the root's fingerprint and its build-in-progress marker
SeedRootCheck(p) ==
    LET P == proc[p]
        rootKey == ComputeCacheKey(fs, inodes, Artifact(P), RootPath)
    IN  /\ P.pc = "seed_root"
        /\ IF rootKey = "" THEN Return(p, "failed to compute cache key for root")
           ELSE IF P.key # rootKey THEN Goto(p, NextArtifact(P))
           ELSE IF isBuildInProgress(fs, RootPath, Artifact(P)) THEN Goto(p, NextArtifact(P))
           ELSE Goto(p, [P EXCEPT !.pi = 1, !.pc = "seed_path"])
        /\ UNCHANGED <<fs, inodes, nextIno, flocks, xdev, now, cfg, overlap, tools, host, stalled>>

SeedPath(p) ==
    LET P == proc[p]
    IN  /\ P.pc = "seed_path"
        /\ IF P.pi > Len(Artifact(P).paths) THEN Goto(p, NextArtifact(P))
           ELSE IF ~dirExists(fs, LocalPath(P)) THEN Goto(p, [P EXCEPT !.pi = P.pi + 1])
           ELSE Goto(p, [P EXCEPT !.pc = "seedcache_mkdir"])
        /\ UNCHANGED <<fs, inodes, nextIno, flocks, xdev, now, cfg, overlap, tools, host, stalled>>

\* seedToCache: os.MkdirAll(cachePath)
SeedCacheMkdir(p) ==
    LET P == proc[p]
    IN  /\ P.pc = "seedcache_mkdir"
        /\ IF MkdirAllErr(fs, CachePath(P)) # "ok"
           THEN Return(p, "failed to seed from root") /\ UNCHANGED fs
           ELSE fs' = MkdirAll(fs, CachePath(P))
                /\ Goto(p, [P EXCEPT !.pc = "seedcache_target"])
        /\ UNCHANGED <<inodes, nextIno, flocks, xdev, now, cfg, overlap, tools, host, stalled>>

\* seedToCache: an existing target is left alone, else SeedDirectory starts
SeedCacheTarget(p) ==
    LET P == proc[p]
    IN  /\ P.pc = "seedcache_target"
        /\ IF dirExists(fs, TargetInCache(P))
           THEN Goto(p, [P EXCEPT !.pi = P.pi + 1, !.pc = "seed_path"])
           ELSE Goto(p, [P EXCEPT !.src = LocalPath(P), !.dst = TargetInCache(P),
                                  !.pc = "seed_walk"])
        /\ UNCHANGED <<fs, inodes, nextIno, flocks, xdev, now, cfg, overlap, tools, host, stalled>>

----------------------------------------------------------------------------
(* Cache management: GetCacheSizes, RemoveCacheEntry and RemoveAllCache,   *)
(* the functions behind `mono cache list`, `remove` and `clean --force`.   *)

\* the directories among the entries os.ReadDir(dir) returns
SubDirs(f, dir) == {q \in Children(f, dir) : f[q].kind = "dir"}

\* the sum of info.Size() over walked entries that are not directories: the
\* bytes of a regular file, the length of a symlink's target
RECURSIVE SumSizes(_, _, _)
SumSizes(f, ino, S) ==
    IF S = {} THEN 0
    ELSE LET q == CHOOSE x \in S : TRUE
             size == IF f[q].kind = "file" THEN Len(ino[f[q].ino].content)
                     ELSE Len(f[q].target)
         IN  size + SumSizes(f, ino, S \ {q})

calculateDirSize(f, ino, path) ==
    SumSizes(f, ino, {q \in Under(f, path) : f[q].kind # "dir"})

\* The entries GetCacheSizes lists, one per key directory of each artifact
\* directory of each project directory; entries that are not directories
\* (the <key>.lock files) are passed over.  The listing is a set here: its
\* order, the lexical order of ReadDir, plays no part.
GetCacheSizes(f, ino) ==
    IF ~dirExists(f, LocalCacheDir) THEN {}
    ELSE {[ProjectID |-> Base(Parent(Parent(keyPath))), Artifact |-> Base(Parent(keyPath)),
           CacheKey |-> Base(keyPath), Size |-> calculateDirSize(f, ino, keyPath)] :
             keyPath \in UNION {SubDirs(f, artifactPath) :
                 artifactPath \in UNION {SubDirs(f, projectPath) :
                     projectPath \in SubDirs(f, LocalCacheDir)}}}

\* totalSize += e.Size over the listed entries
RECURSIVE TotalSize(_)
TotalSize(entries) ==
    IF entries = {} THEN 0
    ELSE LET e == CHOOSE x \in entries : TRUE
         IN  e.Size + TotalSize(entries \ {e})

\* a pruning that removes the directory with whatever is in it
cleanParentDirs(f, path) ==
    IF ~dirExists(f, path) THEN f ELSE RemoveAll(f, path)

cleanEmptyParentDirs(f, path) ==
    IF ~dirExists(f, path) THEN f
    ELSE IF Children(f, path) = {} THEN Drop(f, {path})
    ELSE f

\* what a cache management command leaves in the history
CacheEvent(op, entry, list, count, bytes) ==
    [op |-> op, env |-> <<>>, ai |-> 0, hb |-> FALSE, key |-> "", pre |-> {}, moved |-> 0,
     res |-> "ok", err |-> "", entry |-> entry, list |-> list, count |-> count,
     bytes |-> bytes]

\* `mono cache list`: GetCacheSizes, one system call at a time.  First the
\* dirExists(cm.LocalCacheDir) test, which returns the empty list.
ListCacheSizes(p) ==
    /\ CanCall(p)
    /\ IF ~dirExists(fs, LocalCacheDir)
       THEN /\ hist' = Append(hist, CacheEvent("GetCacheSizes", <<>>, {}, 0, 0))
            /\ proc' = proc
       ELSE /\ proc' = [proc EXCEPT ![p] = [Idle EXCEPT !.pc = "list-read",
                                        !.op = "GetCacheSizes", !.pre = GetCacheSizes(fs, inodes)]]
            /\ hist' = hist
    /\ UNCHANGED <<fs, inodes, nextIno, flocks, xdev, now, cfg, overlap, tools, host, stalled>>

\* what GetCacheSizes returns once nothing is left to visit
ListReturned(p, todo, list) ==
    IF todo = {}
    THEN /\ proc' = [proc EXCEPT ![p] = Idle]
         /\ hist' = Append(hist, [CacheEvent("GetCacheSizes", <<>>, list, 0, 0)
                                     EXCEPT !.pre = proc[p].pre])
    ELSE /\ proc' = [proc EXCEPT ![p].pc = "list-visit", ![p].todo = todo, ![p].list = list]
         /\ hist' = hist

\* os.ReadDir(cm.LocalCacheDir): its failure is the failure of the call
ListReadDir(p) ==
    /\ proc[p].pc = "list-read"
    /\ IF ~dirExists(fs, LocalCacheDir)
       THEN /\ proc' = [proc EXCEPT ![p] = Idle]
            /\ hist' = Append(hist, [CacheEvent("GetCacheSizes", <<>>, {}, 0, 0)
                                        EXCEPT !.res = "failed to read cache directory",
                                               !.err = "ENOENT", !.pre = proc[p].pre])
       ELSE ListReturned(p, SubDirs(fs, LocalCacheDir), {})
    /\ UNCHANGED <<fs, inodes, nextIno, flocks, xdev, now, cfg, overlap, tools, host, stalled>>

\* One pass of a loop body: os.ReadDir of a project or artifact directory,
\* or calculateDirSize of a key directory; an error of either passes on to
\* the next directory (continue).  The directories yet to visit are a set
\* here, the next one an arbitrary fixed choice: the listing is a set too.
ListVisit(p) ==
    LET P == proc[p]
        path == CHOOSE q \in P.todo : \A r \in P.todo : Len(q) >= Len(r)
        rest == P.todo \ {path}
        level == Len(path) - Len(LocalCacheDir)
    IN  /\ P.pc = "list-visit"
        /\ IF ~dirExists(fs, path) THEN ListReturned(p, rest, P.list)
           ELSE IF level < 3 THEN ListReturned(p, rest \cup SubDirs(fs, path), P.list)
           ELSE ListReturned(p, rest, P.list \cup
                    {[ProjectID |-> path[Len(path) - 2], Artifact |-> path[Len(path) - 1],
                      CacheKey |-> path[Len(path)],
                      Size |-> calculateDirSize(fs, inodes, path)]})
        /\ UNCHANGED <<fs, inodes, nextIno, flocks, xdev, now, cfg, overlap, tools, host, stalled>>

\* the entries a user can name: those that are there, and one that is not
Removable ==
    {<<e.ProjectID, e.Artifact, e.CacheKey>> : e \in GetCacheSizes(fs, inodes)}
        \cup {<<ComputeProjectID(RootPath), "cargo", "#none">>}

RemoveCacheEntry(p, projectID, artifact, cacheKey) ==
    LET path == LocalCacheDir \o <<projectID, artifact, cacheKey>>
        removed == RemoveAll(fs, path)
        pruned == cleanEmptyParentDirs(removed, LocalCacheDir \o <<projectID, artifact>>)
    IN  /\ CanCall(p)
        /\ fs' = cleanEmptyParentDirs(pruned, LocalCacheDir \o <<projectID>>)
        /\ inodes' = Reclaim(inodes, fs', flocks)
        /\ hist' = Append(hist, CacheEvent("RemoveCacheEntry",
                                           <<projectID, artifact, cacheKey>>, {}, 0, 0))
        /\ UNCHANGED <<nextIno, flocks, xdev, now, cfg, overlap, tools, host, stalled, proc>>

\* a removal that clears the cache of this project only
RemoveProjectCache(p) ==
    LET listed == {e \in GetCacheSizes(fs, inodes) : e.ProjectID = ComputeProjectID(RootPath)}
    IN  /\ CanCall(p)
        /\ fs' = RemoveAll(fs, GetProjectCacheDir(RootPath))
        /\ inodes' = Reclaim(inodes, fs', flocks)
        /\ hist' = Append(hist, CacheEvent("RemoveAllCache", <<>>, {},
                                           Cardinality(listed), TotalSize(listed)))
        /\ UNCHANGED <<nextIno, flocks, xdev, now, cfg, overlap, tools, host, stalled, proc>>

RemoveAllCache(p) ==
    LET listed == GetCacheSizes(fs, inodes)
    IN  /\ CanCall(p)
        /\ fs' = RemoveAll(fs, LocalCacheDir)
        /\ inodes' = Reclaim(inodes, fs', flocks)
        /\ hist' = Append(hist, CacheEvent("RemoveAllCache", <<>>, {},
                                           Cardinality(listed), TotalSize(listed)))
        /\ UNCHANGED <<nextIno, flocks, xdev, now, cfg, overlap, tools, host, stalled, proc>>

----------------------------------------------------------------------------
(* Build conflicts and build environment: CheckCargoBuildConflicts with    *)
(* DetectRunningCargoProcesses, and EnvVars.                               *)

\* an absolute path as a Go string
RECURSIVE PathString(_)
PathString(path) ==
    IF path = <<>> THEN <<>> ELSE <<"/">> \o Spell[Head(path)] \o PathString(Tail(path))

\* exec.Command("ps", "-eo", "pid,command").Output() is ps: [ok, out].  The
\* result is [err, processes], a process being [PID, Command].
DetectRunningCargoProcesses(ps, projectPath) ==
    LET Space == {" ", "\t", "\n"}
        \* strings.Split(s, "\n")
        RECURSIVE Split(_, _)
        Split(s, cur) ==
            IF s = <<>> THEN <<cur>>
            ELSE IF Head(s) = "\n" THEN <<cur>> \o Split(Tail(s), <<>>)
            ELSE Split(Tail(s), Append(cur, Head(s)))
        RECURSIVE TrimLeft(_)
        TrimLeft(s) == IF s # <<>> /\ Head(s) \in Space THEN TrimLeft(Tail(s)) ELSE s
        RECURSIVE TrimRight(_)
        TrimRight(s) ==
            IF s # <<>> /\ s[Len(s)] \in Space THEN TrimRight(SubSeq(s, 1, Len(s) - 1)) ELSE s
        TrimSpace(s) == TrimRight(TrimLeft(s))
        \* strings.Fields(s): the maximal runs of characters that are not space
        RECURSIVE Fields(_, _)
        Fields(s, cur) ==
            IF s = <<>> THEN (IF cur = <<>> THEN <<>> ELSE <<cur>>)
            ELSE IF Head(s) \in Space
                 THEN (IF cur = <<>> THEN <<>> ELSE <<cur>>) \o Fields(Tail(s), <<>>)
            ELSE Fields(Tail(s), Append(cur, Head(s)))
        \* strings.Join(fields, " ")
        RECURSIVE Join(_)
        Join(fields) ==
            IF Len(fields) = 1 THEN fields[1]
            ELSE fields[1] \o <<" ">> \o Join(Tail(fields))
        RECURSIVE Scan(_)
        Scan(lines) ==
            IF lines = <<>> THEN <<>>
            ELSE LET line == TrimSpace(Head(lines))
                     fields == Fields(line, <<>>)
                 IN  IF line = <<>> THEN Scan(Tail(lines))
                     ELSE IF ~Contains(line, <<"c","a","r","g","o">>)
                             /\ ~Contains(line, <<"r","u","s","t","c">>)
                          THEN Scan(Tail(lines))
                     ELSE IF ~Contains(line, projectPath) THEN Scan(Tail(lines))
                     ELSE IF Len(fields) < 2 THEN Scan(Tail(lines))
                     ELSE <<[PID |-> fields[1], Command |-> Join(Tail(fields))]>>
                              \o Scan(Tail(lines))
    IN  IF ~ps.ok THEN [err |-> TRUE, processes |-> <<>>]
        ELSE [err |-> FALSE, processes |-> Scan(Split(ps.out, <<>>))]

\* a check that passes a detection error on to its caller
CheckCargoBuildConflictsStrict(f, ps, path) ==
    LET detected == DetectRunningCargoProcesses(ps, PathString(path))
    IN  IF fileExists(f, path \o <<"target", ".cargo-lock">>)
        THEN [res |-> "cargo lock file exists", pids |-> <<>>]
        ELSE IF detected.err THEN [res |-> "failed to run ps", pids |-> <<>>]
        ELSE IF Len(detected.processes) > 0
             THEN [res |-> "found running cargo/rustc process(es)",
                   pids |-> [i \in 1..Len(detected.processes) |-> detected.processes[i].PID]]
        ELSE [res |-> "ok", pids |-> <<>>]

\* the outcome with the PIDs named in the message; "ok" is nil
CheckCargoBuildConflicts(f, ps, path) ==
    LET lockFile == path \o <<"target", ".cargo-lock">>
        detected == DetectRunningCargoProcesses(ps, PathString(path))
    IN  IF fileExists(f, lockFile) THEN [res |-> "cargo lock file exists", pids |-> <<>>]
        ELSE IF detected.err THEN [res |-> "ok", pids |-> <<>>]
        ELSE IF Len(detected.processes) > 0
             THEN [res |-> "found running cargo/rustc process(es)",
                   pids |-> [i \in 1..Len(detected.processes) |-> detected.processes[i].PID]]
        ELSE [res |-> "ok", pids |-> <<>>]

\* `mono` asks before it builds in a project root or a workspace
CallCheckConflicts(p, path) ==
    LET out == CheckCargoBuildConflicts(fs, host.ps, path)
    IN  /\ CanCall(p)
        /\ hist' = Append(hist, [CacheEvent("CheckCargoBuildConflicts", <<>>, out.pids, 0, 0)
                                    EXCEPT !.env = path, !.res = out.res])
        /\ UNCHANGED <<fs, inodes, nextIno, flocks, xdev, now, cfg, overlap, tools, host,
                       stalled, proc>>

\* cfg.Sccache is a *bool: "nil", "true" or "false".  A variable "NAME=value"
\* is the record of its name and its value.
EnvVars(build, SccacheAvailable) ==
    LET shouldEnableSccache ==
            IF build.Sccache # "nil" THEN build.Sccache = "true" /\ SccacheAvailable
            ELSE SccacheAvailable
    IN  IF shouldEnableSccache THEN <<[name |-> "RUSTC_WRAPPER", value |-> "sccache"]>>
        ELSE <<>>

\* the environment of a build script is asked for
CallEnvVars(p) ==
    /\ CanCall(p)
    /\ hist' = Append(hist, CacheEvent("EnvVars", <<>>, EnvVars(host.build, host.sccache), 0, 0))
    /\ UNCHANGED <<fs, inodes, nextIno, flocks, xdev, now, cfg, overlap, tools, host,
                   stalled, proc>>

\* sccache is not installed, ps prints nothing, the project builds
DefaultHost ==
    [ps |-> [ok |-> TRUE, out |-> <<>>], sccache |-> FALSE,
     build |-> [Strategy |-> "build", Sccache |-> "nil"], protected |-> {}]

----------------------------------------------------------------------------
(* Build tools writing to the files of a workspace's artifact trees.       *)

Quiet == \A p \in Procs : proc[p].pc = "idle"

\* Init restores the cached artifacts and then runs the build script: the
\* files a build writes are those of a restored artifact tree.
Restored(path) ==
    \E i \in 1..Len(hist) :
        /\ hist[i].op = "Restore" /\ hist[i].res = "ok"
        /\ \E j \in 1..Len(cfg[hist[i].ai].paths) :
              IsPrefix(hist[i].env \o cfg[hist[i].ai].paths[j], path)

WorkspaceFiles == {q \in DOMAIN fs : fs[q].kind = "file" /\ Restored(q)}

WriteEvent(kind, path) ==
    [op |-> kind, env |-> path, ai |-> 0, hb |-> FALSE, key |-> "", pre |-> {}, moved |-> 0,
     res |-> "ok"]

\* open(O_WRONLY|O_TRUNC) and write: the inode is changed where it is
WriteInPlace(path) ==
    /\ Quiet
    /\ Written < MaxWrites
    /\ path \in WorkspaceFiles
    /\ inodes' = [inodes EXCEPT ![fs[path].ino] = [content |-> "new", mtime |-> now]]
    /\ hist' = Append(hist, WriteEvent("WriteInPlace", path))
    /\ now' = now + 1
    /\ UNCHANGED <<fs, nextIno, flocks, xdev, cfg, overlap, tools, host, stalled, proc>>

\* a build tool that rewrites the file it finds, through the shared inode
WriteReplaceShared(path) ==
    /\ Quiet
    /\ Written < MaxWrites
    /\ path \in WorkspaceFiles
    /\ inodes' = [inodes EXCEPT ![fs[path].ino] = [content |-> "new", mtime |-> now]]
    /\ hist' = Append(hist, WriteEvent("WriteReplace", path))
    /\ now' = now + 1
    /\ UNCHANGED <<fs, nextIno, flocks, xdev, cfg, overlap, tools, host, stalled, proc>>

\* write a new file and rename it over the path (or unlink and create)
WriteReplace(path) ==
    /\ Quiet
    /\ Written < MaxWrites
    /\ path \in WorkspaceFiles
    /\ fs' = [fs EXCEPT ![path] = FileNode(nextIno)]
    /\ inodes' = Reclaim((nextIno :> [content |-> "new", mtime |-> now]) @@ inodes, fs', flocks)
    /\ nextIno' = nextIno + 1
    /\ hist' = Append(hist, WriteEvent("WriteReplace", path))
    /\ now' = now + 1
    /\ UNCHANGED <<flocks, xdev, cfg, overlap, tools, host, stalled, proc>>

----------------------------------------------------------------------------
(* Initial states: a project root and two workspaces, each holding the key *)
(* files of the configured artifacts and, where a build has run, the       *)
(* artifact trees it produced.                                             *)

NoTree == [built |-> FALSE, leaves |-> {}]
Built(leaves) == [built |-> TRUE, leaves |-> leaves]

addFile(st, path, content) ==
    [st EXCEPT !.fs = (path :> FileNode(st.nextIno)) @@ MkdirAll(st.fs, Parent(path)),
               !.inodes = (st.nextIno :> [content |-> content, mtime |-> 0]) @@ st.inodes,
               !.nextIno = st.nextIno + 1]

RECURSIVE buildLeaves(_, _, _)
buildLeaves(st, dir, todo) ==
    IF todo = <<>> THEN st
    ELSE LET rel == Head(todo)
             one == IF Base(rel) = "ln"
                    THEN [st EXCEPT !.fs = (dir \o rel :> LinkNode("../real"))
                                           @@ MkdirAll(st.fs, Parent(dir \o rel))]
                    ELSE addFile(st, dir \o rel, Base(rel))
         IN  buildLeaves(one, dir, Tail(todo))

\* the artifact tree a build produces at dir
build(st, dir, shape) ==
    IF ~shape.built THEN st
    ELSE buildLeaves([st EXCEPT !.fs = MkdirAll(st.fs, dir)], dir, SortWalk(shape.leaves))

RECURSIVE buildPaths(_, _, _, _)
buildPaths(st, at, paths, shape) ==
    IF paths = <<>> THEN st
    ELSE buildPaths(build(st, at \o Head(paths), shape), at, Tail(paths), shape)

RECURSIVE keyFiles(_, _, _, _)
keyFiles(st, at, files, content) ==
    IF files = <<>> THEN st
    ELSE keyFiles(addFile(st, at \o <<Head(files)>>, content), at, Tail(files), content)

\* a checkout at `at`: key files with the given content, and built trees
RECURSIVE checkout(_, _, _, _, _)
checkout(st, at, artifacts, content, shape) ==
    IF artifacts = <<>> THEN [st EXCEPT !.fs = MkdirAll(st.fs, at)]
    ELSE checkout(buildPaths(keyFiles(st, at, Head(artifacts).keyFiles, content),
                             at, Head(artifacts).paths, shape),
                  at, Tail(artifacts), content, shape)

Empty == [fs |-> MkdirAll(<<>> :> DirNode, HomeDir), inodes |-> <<>>, nextIno |-> 1, err |-> "ok"]

\* cache entries earlier sessions left: <project>/<artifact>/<key>/target/lib
RECURSIVE entries(_, _)
entries(st, todo) ==
    IF todo = <<>> THEN st
    ELSE entries(addFile(st, LocalCacheDir \o Head(todo) \o <<"target", "lib">>, "old"),
                 Tail(todo))

\* sc: the configuration, each checkout's lock file content and built tree
Checkouts(sc) ==
    entries(checkout(checkout(checkout(Empty, RootPath, sc.cfg, sc.lockRoot, sc.root),
                              <<"p", "w1">>, sc.cfg, "A", sc.w1),
                     <<"p", "w2">>, sc.cfg, sc.lockW2, sc.w2),
            sc.stale)

InitFrom(scenarios) ==
    \E sc \in scenarios :
        /\ fs = Checkouts(sc).fs
        /\ inodes = Checkouts(sc).inodes
        /\ nextIno = Checkouts(sc).nextIno
        /\ flocks = {}
        /\ xdev = sc.xdev
        /\ now = 1
        /\ cfg = sc.cfg
        /\ overlap = sc.overlap
        /\ tools = sc.tools
        /\ host = sc.host
        /\ stalled = {}
        /\ proc = [p \in Procs |-> Idle]
        /\ hist = <<>>

Scenario(c, x, lr, l2, r, a, b) ==
    [cfg |-> c, xdev |-> x, overlap |-> TRUE, tools |-> DOMAIN CmdOutput,
     lockRoot |-> lr, lockW2 |-> l2, root |-> r, w1 |-> a, w2 |-> b, stale |-> <<>>,
     host |-> DefaultHost]

OneByOne(c, x, lr, l2, r, a, b) == [Scenario(c, x, lr, l2, r, a, b) EXCEPT !.overlap = FALSE]
\* the machine has no such tool: the key command exits non-zero
Missing(sc, cmd) == [sc EXCEPT !.tools = sc.tools \ {cmd}]
\* the cache holds entries of an earlier key and of another project
Stale(sc) ==
    [sc EXCEPT !.stale = << <<ComputeProjectID(RootPath), "cargo", "#old">>,
                            <<ComputeProjectID(<<"q">>), "cargo", "#k">> >>]

Plain == Built({<<"lib">>})

\* concurrent calls: small trees; in the last scenario the lock file of w2
\* differs from those of w1 and the root, and so does its key
Init ==
    InitFrom({ Scenario(<<GenArtifact>>, FALSE, "A", "A", Plain, Plain, Plain),
      Scenario(<<CargoArtifact>>, FALSE, "A", "A", Plain, Plain, NoTree),
      Scenario(<<CargoArtifact>>, TRUE, "A", "A", NoTree, Plain, Plain),
      Scenario(<<CargoArtifact>>, FALSE, "A", "B", Plain, Plain, Plain) })

\* Concurrent calls of two processes.
Next ==
    \E p \in Procs :
        \* StoreToCache
        \/ \E ai \in 1..Len(cfg) : CallStore(p, EnvPath(p), ai)
        \/ StoreMkdir(p)
        \/ StorePath(p)
        \/ StoreRename(p)
        \/ StoreHardlinkBack(p)
        \* RestoreFromCache
        \/ \E ai \in 1..Len(cfg) : CallRestore(p, EnvPath(p), ai)
        \/ RestoreSrc(p)
        \/ RestoreRemove(p)
        \/ RestoreFix(p)
        \* Sync
        \/ \E hb \in BOOLEAN : CallSync(p, EnvPath(p), hb)
        \/ SyncCheck(p)
        \/ SyncHit(p)
        \/ SyncPath(p)
        \/ MoveLock(p)
        \/ MoveTarget(p)
        \/ MoveMkdir(p)
        \/ MoveRename(p)
        \/ MoveCopy(p)
        \/ MoveHardlinkBack(p)
        \* SeedFromRoot
        \/ \E env \in {EnvPath(p), RootPath} : CallSeed(p, env)
        \/ SeedArtifact(p)
        \/ SeedRootCheck(p)
        \/ SeedPath(p)
        \/ SeedCacheMkdir(p)
        \/ SeedCacheTarget(p)
        \* shared by RestoreFromCache and SeedFromRoot
        \/ PrepareArtifactCache(p)
        \/ SeedWalk(p)
        \/ SeedMkdir(p)
        \/ SeedFile(p)

Spec == Init /\ [][Next]_vars

----------------------------------------------------------------------------
(* Calls that do not overlap, on the trees real builds leave, with build   *)
(* tools writing to workspace files between the calls.                     *)

CargoTree ==
    Built({<<"lib">>, <<"a.o">>, <<"incremental", "c">>,
           <<"debug", ".fingerprint", "k", "dep-x">>})
NodeTree == Built({<<"lib">>, <<".bin", "t">>, <<"ln">>})
\* a tree with symlinks, one of them inside cargo's incremental directory
Linked == Built({<<"lib">>, <<"ln">>, <<"incremental", "ln">>})
\* a cargo build is running: it holds target/.cargo-lock
Building == Built({<<"lib">>, <<".cargo-lock">>})

SeqNext ==
    \/ Next
    \/ \E path \in DOMAIN fs : WriteInPlace(path)
    \/ \E path \in DOMAIN fs : WriteReplace(path)

SeqSpec ==
    /\ InitFrom({ OneByOne(<<CargoArtifact>>, FALSE, "A", "A", NoTree, CargoTree, NoTree),
      OneByOne(<<CargoArtifact>>, FALSE, "A", "B", CargoTree, Plain, Plain),
      OneByOne(<<CargoArtifact>>, TRUE, "A", "A", Plain, CargoTree, NoTree),
      OneByOne(<<CargoArtifact>>, FALSE, "A", "A", Plain, Building, Plain),
      OneByOne(<<NpmArtifact>>, FALSE, "A", "A", NoTree, NodeTree, NoTree),
      OneByOne(<<NpmArtifact>>, TRUE, "A", "A", NodeTree, Plain, Plain),
      OneByOne(<<NpmArtifact, CargoArtifact>>, FALSE, "A", "A", Plain, Building, Plain),
      Missing(OneByOne(<<NpmArtifact, CargoArtifact>>, FALSE, "A", "A", NoTree, Building, NoTree),
              "node --version"),
      Missing(OneByOne(<<CargoArtifact>>, FALSE, "A", "A", Plain, Plain, NoTree),
              "rustc --version"),
      OneByOne(<<NpmArtifact, CargoArtifact>>, FALSE, "A", "A", NoTree, Plain, NoTree),
      OneByOne(<<GenArtifact>>, FALSE, "A", "A", Plain, Plain, NoTree),
      OneByOne(<<CargoArtifact>>, FALSE, "A", "A", Building, NoTree, NoTree),
      OneByOne(<<CargoArtifact>>, FALSE, "A", "A", NoTree, Linked, NoTree),
      OneByOne(<<CargoArtifact>>, TRUE, "A", "A", NoTree, Linked, NoTree) })
    /\ [][SeqNext]_vars

----------------------------------------------------------------------------
(* The cache management commands among the calls of the engine.            *)

MaintNext ==
    \/ Next
    \/ \E p \in Procs : ListCacheSizes(p) \/ ListReadDir(p) \/ ListVisit(p)
    \/ \E p \in Procs : \E e \in Removable : RemoveCacheEntry(p, e[1], e[2], e[3])
    \/ \E p \in Procs : RemoveAllCache(p)

\* one scenario with overlapping calls, two with a cache that holds entries
\* of earlier sessions (calls overlapping, calls one after the other), one with the cache on
\* another device, two with an artifact of two paths (of different base
\* names, of one base name), two on a machine where the file lib of the
\* workspace's tree cannot be hard-linked (alone in the tree, after a
\* directory in walk order)
MaintSpec ==
    /\ InitFrom({ Scenario(<<CargoArtifact>>, FALSE, "A", "A", NoTree, Plain, NoTree),
                  Stale(Scenario(<<CargoArtifact>>, FALSE, "A", "A", NoTree, NoTree, NoTree)),
                  Stale(OneByOne(<<CargoArtifact>>, FALSE, "A", "A", Plain, Plain, Plain)),
                  OneByOne(<<CargoArtifact>>, TRUE, "A", "A", NoTree, Plain, NoTree),
                  OneByOne(<<GenArtifact>>, FALSE, "A", "A", NoTree, Plain, NoTree),
                  OneByOne(<<TwinArtifact>>, FALSE, "A", "A", NoTree, Plain, NoTree),
                  [OneByOne(<<CargoArtifact>>, FALSE, "A", "A", NoTree, Plain, NoTree)
                      EXCEPT !.host.protected = {"lib"}],
                  [OneByOne(<<CargoArtifact>>, FALSE, "A", "A", NoTree, Linked, NoTree)
                      EXCEPT !.host.protected = {"lib"}] })
    /\ [][MaintNext]_vars

----------------------------------------------------------------------------
(* HardlinkTree called on its own, as TestHardlinkTree does, from and to   *)
(* directories that exist or not, on one device or across two; and         *)
(* ComputeCacheKey called on its own, as TestComputeCacheKey does.         *)

CallHardlinkTree(src, dst) ==
    LET st == HardlinkTree(World, src, dst)
    IN  /\ Started < MaxCalls
        /\ Apply(st, flocks)
        /\ hist' = Append(hist, [CacheEvent("HardlinkTree", <<src, dst>>, {}, 0, 0)
                                    EXCEPT !.res = st.err])
        /\ UNCHANGED <<xdev, now, cfg, overlap, tools, host, stalled, proc>>

\* the fingerprint of an artifact descriptor in a checkout is asked for
CallComputeCacheKey(p, artifact, envPath) ==
    LET key == ComputeCacheKey(fs, inodes, artifact, envPath)
    IN  /\ CanCall(p)
        /\ hist' = Append(hist, [CacheEvent("ComputeCacheKey", artifact, {}, 0, 0)
                                    EXCEPT !.env = envPath, !.key = key,
                                           !.res = IF key = "" THEN "failed" ELSE "ok"])
        /\ UNCHANGED <<fs, inodes, nextIno, flocks, xdev, now, cfg, overlap, tools, host,
                       stalled, proc>>

\* The descriptors asked about: key files present, absent (an optional
\* manifest) or a directory; key commands none, one, or two in either order.
TreeNext ==
    \/ \E src \in {RootPath \o <<"target">>, <<"p", "w1", "target">>, <<"p", "w2", "target">>} :
        \E dst \in {<<"p", "w2", "target">>, <<"p", "w2", "copy">>, LocalCacheDir \o <<"tree">>,
                     GetArtifactCachePath(RootPath, "cargo", "#old") \o <<"target">>} :
            CallHardlinkTree(src, dst)
    \/ \E path \in {RootPath, <<"p", "w1">>} :
        \E d \in { <<<<"Cargo.lock">>, <<"rustc --version">>>>,
                    <<<<"absent.lock", "Cargo.lock">>, <<"rustc --version">>>>,
                    <<<<"Cargo.lock">>, <<>>>>,
                    <<<<"absent.lock">>, <<>>>>,
                    <<<<>>, <<>>>>,
                    <<<<>>, <<"rustc --version", "node --version">>>>,
                    <<<<>>, <<"node --version", "rustc --version">>>>,
                    <<<<"target">>, <<>>>> } :
            CallComputeCacheKey("p1", [CargoArtifact EXCEPT !.keyFiles = d[1],
                                                            !.keyCommands = d[2]], path)

TreeSpec ==
    /\ InitFrom({ Stale(OneByOne(<<CargoArtifact>>, FALSE, "B", "A", Plain, Linked, Plain)),
                  OneByOne(<<CargoArtifact>>, TRUE, "A", "A", NoTree, CargoTree, NoTree) })
    /\ [][TreeNext]_vars

----------------------------------------------------------------------------
(* SeedDirectory on a filesystem whose operations can block: the calls     *)
(* that replicate through it, one after the other.  The timer of a waiting *)
(* worker fires.                                                           *)

StallNext ==
    \/ \E p \in Procs :
        \/ \E ai \in 1..Len(cfg) : CallRestore(p, EnvPath(p), ai)
        \/ RestoreSrc(p)
        \/ RestoreRemove(p)
        \/ RestoreFix(p)
        \/ \E env \in {EnvPath(p), RootPath} : CallSeed(p, env)
        \/ SeedArtifact(p)
        \/ SeedRootCheck(p)
        \/ SeedPath(p)
        \/ SeedCacheMkdir(p)
        \/ SeedCacheTarget(p)
        \/ PrepareArtifactCache(p)
        \/ SeedWalk(p)
        \/ SeedMkdir(p)
        \/ SeedFile(p)
    \/ \E p \in Procs : FileStall(p) \/ FileTimeout(p)
    \/ StalledTaskEnds

StallSpec ==
    /\ InitFrom({ OneByOne(<<CargoArtifact>>, FALSE, "A", "A", CargoTree, NoTree, NoTree),
                  OneByOne(<<GenArtifact>>, FALSE, "A", "A",
                           Built({<<"lib">>, <<"ln">>}), NoTree, NoTree) })
    /\ [][StallNext]_vars
    /\ \A p \in Procs : WF_vars(FileTimeout(p))

----------------------------------------------------------------------------
(* SeedDirectory's apply phase, goroutine by goroutine: the workers that   *)
(* drain the file queue, the errgroup that collects their results, the     *)
(* progress watchdog.  Time is counted in periods of the watchdog's ticker *)
(* and passes while a file operation is running.                           *)

\* fileTimeout and progressTimeout in ticker periods, NumWorkers: the
\* defaults' proportions with one and with three workers, and a progress
\* timeout shorter than the file timeout
SeedOptions ==
    { [NumWorkers |-> 1, FileTimeout |-> 1, ProgressTimeout |-> 2],
      [NumWorkers |-> 3, FileTimeout |-> 1, ProgressTimeout |-> 2],
      [NumWorkers |-> 2, FileTimeout |-> 3, ProgressTimeout |-> 1] }

\* a worker at the head of its loop
AtSelect == [st |-> "select", file |-> <<>>, start |-> 0, hung |-> FALSE, ret |-> ""]

\* what SeedDirectory leaves in the history: the collected files, which
\* worker took which file, the files processed, the error kept by once.Do
\* and how often its function ran, whether the watchdog cancelled
SeedDirectoryEvent(P, res) ==
    [CacheEvent("SeedDirectory",
                [files |-> P.pool.files, taken |-> P.pool.taken,
                 processed |-> P.pool.processed, firstErr |-> P.pool.firstErr,
                 onceRuns |-> P.pool.onceRuns, fired |-> P.pool.fired,
                 workers |-> P.pool.opts.NumWorkers],
                {}, 0, 0)
        EXCEPT !.env = P.dst, !.res = res]

\* SeedDirectory up to the start of the goroutines: the walk, the creation
\* of the collected directories, the filling and closing of the channel.
\* One call is followed from its start to its return.
CallSeedDirectory(p, src, dst, opts) ==
    LET name == cfg[1].name
        dirs == SortWalk(SeedDirs(fs, src, name))
        files == SeedFiles(fs, src, name)
        st == MkdirEach(World, dst, dirs)
        P == [Idle EXCEPT !.pc = "pool", !.op = "SeedDirectory", !.src = src, !.dst = dst,
                          !.dirs = dirs, !.files = files,
                          !.pool = [opts |-> opts, files |-> files, queue |-> SortWalk(files),
                                    w |-> [i \in 1..opts.NumWorkers |-> AtSelect],
                                    firstErr |-> <<>>, onceRuns |-> 0, gerr |-> "",
                                    ctx |-> FALSE, gctx |-> FALSE, fired |-> FALSE,
                                    last |-> 0, clock |-> 0, hangs |-> 0,
                                    taken |-> <<>>, processed |-> <<>>]]
    IN  /\ CanCall(p) /\ hist = <<>>
        /\ IF src \notin DOMAIN fs
           THEN /\ hist' = Append(hist, SeedDirectoryEvent(P, "failed to walk source directory"))
                /\ UNCHANGED <<fs, inodes, nextIno, flocks, proc>>
           ELSE IF st.err # "ok"
           THEN /\ Apply(st, flocks)
                /\ hist' = Append(hist, SeedDirectoryEvent(P, "failed to create directory"))
                /\ UNCHANGED proc
           ELSE Apply(st, flocks) /\ Goto(p, P)
        /\ now' = now + 1
        /\ UNCHANGED <<xdev, cfg, overlap, tools, host, stalled>>

\* the worker returns err to the errgroup: the first non-nil error is kept
\* and cancels the group's context
Returned(pool, w, ret) ==
    [pool EXCEPT !.w[w] = [AtSelect EXCEPT !.st = "done", !.ret = ret],
                 !.gerr = IF ret # "nil" /\ pool.gerr = "" THEN ret ELSE pool.gerr,
                 !.gctx = pool.gctx \/ ret # "nil"]

\* once.Do(firstErr = "failed to link <relPath>") and return firstErr
Failed(pool, w) ==
    Returned([pool EXCEPT !.firstErr = IF pool.firstErr = <<>> THEN <<pool.w[w].file>>
                                       ELSE pool.firstErr,
                          !.onceRuns = IF pool.firstErr = <<>> THEN pool.onceRuns + 1
                                       ELSE pool.onceRuns],
             w, "failed to link")

\* a receive that leaves the file in the channel
ReceivedNothing(pool, w, hung) ==
    [pool EXCEPT !.w[w] = [AtSelect EXCEPT !.st = "busy", !.file = Head(pool.queue),
                                           !.start = pool.clock, !.hung = hung],
                 !.hangs = IF hung THEN pool.hangs + 1 ELSE pool.hangs,
                 !.taken = Append(pool.taken, <<w, Head(pool.queue)>>)]

\* f, ok := <-fileChan with ok true: the worker starts
\* linkOrCopyFileWithTimeout, whose operation may block
Received(pool, w, hung) ==
    [pool EXCEPT !.w[w] = [AtSelect EXCEPT !.st = "busy", !.file = Head(pool.queue),
                                           !.start = pool.clock, !.hung = hung],
                 !.queue = Tail(pool.queue),
                 !.hangs = IF hung THEN pool.hangs + 1 ELSE pool.hangs,
                 !.taken = Append(pool.taken, <<w, Head(pool.queue)>>)]

\* the worker's select: of the cases that are ready, Go takes any.
\* gctx.Done() is ready once the group's context is cancelled, the receive
\* whenever the channel holds a file or is drained (it is closed).
WorkerSelect(p, w) ==
    LET P == proc[p]
    IN  /\ P.pc = "pool" /\ w \in DOMAIN P.pool.w /\ P.pool.w[w].st = "select"
        /\ \/ P.pool.gctx /\ Goto(p, [P EXCEPT !.pool = Returned(P.pool, w, "canceled")])
           \/ /\ P.pool.queue # <<>>
              /\ \E hung \in BOOLEAN :
                    /\ hung => P.pool.hangs < MaxStalls
                    /\ Goto(p, [P EXCEPT !.pool = Received(P.pool, w, hung)])
           \/ P.pool.queue = <<>> /\ Goto(p, [P EXCEPT !.pool = Returned(P.pool, w, "nil")])
        /\ UNCHANGED <<fs, inodes, nextIno, flocks, xdev, now, cfg, overlap, tools, host, stalled>>

\* done delivers the result of linkOrCopyFile: on success the worker stores
\* lastProgress and loops, on failure it records the error and returns it
WorkerFinish(p, w) ==
    LET P == proc[p]
        f == P.pool.w[w].file
        st == linkOrCopyFile(World, P.src \o f, P.dst \o f)
    IN  /\ P.pc = "pool" /\ w \in DOMAIN P.pool.w
        /\ P.pool.w[w].st = "busy" /\ ~P.pool.w[w].hung
        /\ Apply([st EXCEPT !.err = "ok"], flocks)
        /\ Goto(p, IF st.err = "ok"
                   THEN [P EXCEPT !.pool.w[w] = AtSelect, !.pool.last = P.pool.clock,
                                  !.pool.processed = Append(P.pool.processed, f)]
                   ELSE [P EXCEPT !.pool = Failed(P.pool, w)])
        /\ UNCHANGED <<xdev, now, cfg, overlap, tools, host, stalled>>

\* time.After(fileTimeout) fires before done delivers: "operation timed out"
WorkerTimeout(p, w) ==
    LET P == proc[p]
    IN  /\ P.pc = "pool" /\ w \in DOMAIN P.pool.w /\ P.pool.w[w].st = "busy"
        /\ P.pool.clock - P.pool.w[w].start >= P.pool.opts.FileTimeout
        /\ Goto(p, [P EXCEPT !.pool = Failed(P.pool, w)])
        /\ UNCHANGED <<fs, inodes, nextIno, flocks, xdev, now, cfg, overlap, tools, host, stalled>>

\* a ticker period passes while file operations run; a worker's timer fires
\* before the period after its deadline
Tick(p) ==
    LET P == proc[p]
        busy == {w \in DOMAIN P.pool.w : P.pool.w[w].st = "busy"}
    IN  /\ P.pc = "pool" /\ busy # {}
        /\ \A w \in busy : P.pool.clock - P.pool.w[w].start < P.pool.opts.FileTimeout
        /\ Goto(p, [P EXCEPT !.pool.clock = P.pool.clock + 1])
        /\ UNCHANGED <<fs, inodes, nextIno, flocks, xdev, now, cfg, overlap, tools, host, stalled>>

\* the watchdog's ticker case: time.Since(lastProgress) > progressTimeout,
\* so it cancels ctx, and with it the group's context
WatchdogCancels(p) ==
    LET P == proc[p]
    IN  /\ P.pc = "pool" /\ ~P.pool.ctx
        /\ P.pool.clock - P.pool.last > P.pool.opts.ProgressTimeout
        /\ Goto(p, [P EXCEPT !.pool.ctx = TRUE, !.pool.gctx = TRUE, !.pool.fired = TRUE])
        /\ UNCHANGED <<fs, inodes, nextIno, flocks, xdev, now, cfg, overlap, tools, host, stalled>>

\* g.Wait() returns when every worker has returned; context.Canceled becomes
\* the no-progress error
SeedDirectoryReturns(p) ==
    LET P == proc[p]
    IN  /\ P.pc = "pool"
        /\ \A w \in DOMAIN P.pool.w : P.pool.w[w].st = "done"
        /\ proc' = [proc EXCEPT ![p] = Idle]
        /\ hist' = Append(hist, SeedDirectoryEvent(P,
                      CASE P.pool.gerr = "" -> "ok"
                        [] P.pool.gerr = "canceled" -> "seeding timed out: no progress"
                        [] OTHER -> P.pool.gerr))
        /\ UNCHANGED <<fs, inodes, nextIno, flocks, xdev, now, cfg, overlap, tools, host, stalled>>

\* SeedDirectory called on its own, from the root's tree into a workspace
PoolNext ==
    \E p \in Procs :
        \/ \E opts \in SeedOptions :
              CallSeedDirectory(p, RootPath \o <<"target">>, EnvPath(p) \o <<"target">>, opts)
        \/ \E w \in 1..3 : WorkerSelect(p, w)
        \/ \E w \in 1..3 : WorkerFinish(p, w)
        \/ \E w \in 1..3 : WorkerTimeout(p, w)
        \/ Tick(p)
        \/ WatchdogCancels(p)
        \/ SeedDirectoryReturns(p)

\* a root with a cargo tree; a root with a tree whose file lib cannot be
\* hard-linked
PoolSpec ==
    /\ InitFrom({ OneByOne(<<CargoArtifact>>, FALSE, "A", "A", CargoTree, NoTree, NoTree),
                  [OneByOne(<<CargoArtifact>>, FALSE, "A", "A", Linked, NoTree, NoTree)
                      EXCEPT !.host.protected = {"lib"}] })
    /\ [][PoolNext]_vars

----------------------------------------------------------------------------
(* Sync and its advisory lock, while the cache directory may be cleared.   *)

\* the cache directory is removed while calls run: the os.RemoveAll of
\* RemoveAllCache (`mono cache clear`), lock files included
CacheCleared ==
    /\ Children(fs, LocalCacheDir) # {}
    /\ fs' = RemoveAll(fs, LocalCacheDir)
    /\ inodes' = Reclaim(inodes, fs', flocks)
    /\ UNCHANGED <<nextIno, flocks, xdev, now, cfg, overlap, tools, host, stalled, proc, hist>>

LockNext ==
    \/ \E p \in Procs :
        \/ \E hb \in BOOLEAN : CallSync(p, EnvPath(p), hb)
        \/ SyncCheck(p)
        \/ SyncHit(p)
        \/ SyncPath(p)
        \/ MoveLock(p)
        \/ MoveTarget(p)
        \/ MoveMkdir(p)
        \/ MoveRename(p)
        \/ MoveCopy(p)
        \/ MoveHardlinkBack(p)
    \/ CacheCleared

\* two workspaces with one key, on the cache's device and on another one,
\* and a workspace whose file lib cannot be hard-linked
LockSpec ==
    /\ InitFrom({ Scenario(<<CargoArtifact>>, FALSE, "A", "A", NoTree, Plain, Plain),
                  Scenario(<<CargoArtifact>>, TRUE, "A", "A", NoTree, Plain, Plain),
                  [Scenario(<<CargoArtifact>>, FALSE, "A", "A", NoTree, Linked, NoTree)
                      EXCEPT !.host.protected = {"lib"}] })
    /\ [][LockNext]_vars

----------------------------------------------------------------------------
(* Host ports of an environment (package mono, Allocate).                  *)

BasePort == 19000
PortRangePerWorktree == 10
MaxPort == 65535
MaxPortSlots == (MaxPort - BasePort) \div PortRangePerWorktree

\* x XOR y of two bytes
RECURSIVE Xor(_, _)
Xor(x, y) ==
    IF x = 0 /\ y = 0 THEN 0
    ELSE 2 * Xor(x \div 2, y \div 2) + (IF x % 2 = y % 2 THEN 0 ELSE 1)

\* hash/fnv New32a, Write, Sum32: from the offset basis 2166136261, for each
\* byte h = (h XOR byte) * 16777619 mod 2^32. The 32-bit value is kept as
\* two 16-bit halves, h = hi * 2^16 + lo; the prime is 2^24 + 403.
RECURSIVE Sum32(_, _)
Sum32(h, bytes) ==
    IF bytes = <<>> THEN h
    ELSE LET lo == (h.lo \div 256) * 256 + Xor(h.lo % 256, Code[Head(bytes)])
             m  == lo * 403
         IN  Sum32([lo |-> m % 65536,
                    hi |-> (h.hi * 403 + m \div 65536 + (lo % 256) * 256) % 65536],
                   Tail(bytes))

\* int(h.Sum32()) % MaxPortSlots: with a 64-bit int the value is the hash,
\* with a 32-bit int a hash of 2^31 or more is negative and so is the
\* remainder
Slot(envName, bits) ==
    LET h == Sum32([hi |-> 33052, lo |-> 40389], envName)
        r == 65536 % MaxPortSlots
    IN  IF bits = 64 \/ h.hi < 32768
        THEN (h.hi * r + h.lo) % MaxPortSlots
        ELSE 0 - (((65535 - h.hi) * r + (65536 - h.lo)) % MaxPortSlots)

\* for usedPorts[hostPort] { hostPort = basePort + portIndex; portIndex++ }
RECURSIVE Probe(_, _, _, _)
Probe(basePort, usedPorts, hostPort, portIndex) ==
    IF hostPort \in usedPorts
    THEN Probe(basePort, usedPorts, basePort + portIndex, portIndex + 1)
    ELSE [hostPort |-> hostPort, portIndex |-> portIndex]

\* the (service, container port) pairs in the order of the two loops
RECURSIVE PortPairs(_, _)
PortPairs(servicePorts, order) ==
    IF order = <<>> THEN <<>>
    ELSE [i \in 1..Len(servicePorts[Head(order)]) |->
             [Service |-> Head(order), ContainerPort |-> servicePorts[Head(order)][i]]]
         \o PortPairs(servicePorts, Tail(order))

RECURSIVE AllocateFrom(_, _, _, _, _)
AllocateFrom(basePort, pairs, allocations, usedPorts, portIndex) ==
    IF pairs = <<>> THEN allocations
    ELSE LET pr == Probe(basePort, usedPorts,
                         basePort + (Head(pairs).ContainerPort % PortRangePerWorktree),
                         portIndex)
         IN  AllocateFrom(basePort, Tail(pairs),
                          Append(allocations, [Service |-> Head(pairs).Service,
                                               ContainerPort |-> Head(pairs).ContainerPort,
                                               HostPort |-> pr.hostPort]),
                          usedPorts \cup {pr.hostPort}, pr.portIndex)

\* Allocate; order is the order in which range visits the map's services
Allocate(envName, servicePorts, order, bits) ==
    AllocateFrom(BasePort + Slot(envName, bits) * PortRangePerWorktree,
                 PortPairs(servicePorts, order), <<>>, {}, 0)

\* the orders a range over a map can take
Orders(servicePorts) ==
    {o \in [1..Cardinality(DOMAIN servicePorts) -> DOMAIN servicePorts] :
        \A i, j \in DOMAIN o : o[i] = o[j] => i = j}

\* environment names: two of one slot (the hash of the second is 2^31 or
\* more), one of the slot below, one of the last slot, one of another slot
EnvNames == {<<"d","r">>, <<"f","e","l">>, <<"r","m","x">>, <<"a","m","d","p">>, <<"a","p","i">>}

\* one service; two services on ports of different and of equal last digit;
\* eleven and seventeen ports of one service
ServicePorts ==
    { [web |-> <<80>>],
      [web |-> <<80>>, db |-> <<5432>>],
      [web |-> <<80>>, api |-> <<8080>>],
      [web |-> [i \in 1..11 |-> 79 + i]],
      [web |-> [i \in 1..17 |-> 79 + i]] }

CallAllocate(envName, servicePorts, order, bits) ==
    /\ Len(hist) < MaxCalls
    /\ hist' = Append(hist, [op |-> "Allocate", env |-> envName, servicePorts |-> servicePorts,
                             order |-> order, bits |-> bits,
                             res |-> Allocate(envName, servicePorts, order, bits)])
    /\ UNCHANGED <<fs, inodes, nextIno, flocks, xdev, now, cfg, overlap, tools, host, stalled, proc>>

PortNext ==
    \E envName \in EnvNames, servicePorts \in ServicePorts, bits \in {32, 64} :
        \E order \in Orders(servicePorts) : CallAllocate(envName, servicePorts, order, bits)

PortSpec ==
    /\ InitFrom({Scenario(<<CargoArtifact>>, FALSE, "A", "A", NoTree, NoTree, NoTree)})
    /\ [][PortNext]_vars

----------------------------------------------------------------------------
(* The questions `mono` asks before a build, on machines that differ in    *)
(* what ps prints, in whether sccache is installed and in the project's    *)
(* build settings.                                                         *)

QueryNext ==
    \E p \in Procs :
        \/ \E path \in {RootPath, EnvPath(p)} : CallCheckConflicts(p, path)
        \/ CallEnvVars(p)

\* ps fails, or prints up to two of these lines: a cargo in the root, a rustc
\* in a workspace (the line padded with spaces), a cargo of another
\* project, an editor in the root, a line of one field
Machines ==
    LET lines == { <<"7"," ","c","a","r","g","o"," ","/","p">>,
                   <<" "," ","8"," ","r","u","s","t","c"," ","/","p","/","w","1"," ">>,
                   <<"9"," ","c","a","r","g","o"," ","/","q">>,
                   <<"5"," ","v","i"," ","/","p">>,
                   <<"c","a","r","g","o",":","/","p">> }
        outputs == {<<>>} \cup {l \o <<"\n">> : l \in lines}
                          \cup {l \o <<"\n">> \o m \o <<"\n">> : l \in lines, m \in lines}
        machines == {[DefaultHost EXCEPT !.ps = [ok |-> FALSE, out |-> <<>>]]}
                    \cup {[DefaultHost EXCEPT !.ps.out = o] : o \in outputs}
                    \cup {[DefaultHost EXCEPT !.sccache = a, !.build = [Strategy |-> st, Sccache |-> sc]] :
                            a \in BOOLEAN, st \in {"none", "build", "download"},
                            sc \in {"nil", "true", "false"}}
    IN  machines

\* a cargo build holds the lock file in the root, or in a workspace
QuerySpec ==
    /\ InitFrom({[sc EXCEPT !.host = h] :
                    sc \in { OneByOne(<<CargoArtifact>>, FALSE, "A", "A", Building, Plain, NoTree),
                             OneByOne(<<CargoArtifact>>, FALSE, "A", "A", Plain, Building, NoTree) },
                    h \in Machines})
    /\ [][QueryNext]_vars

----------------------------------------------------------------------------
(* Vocabulary of the properties.                                           *)

\* a call returned in this step, with this result
Returns == Len(hist') = Len(hist) + 1
Result == hist'[Len(hist')].res
\* process p, inside a call of op, takes this step
StepOf(p, op) == proc[p].op = op /\ proc'[p] # proc[p]

InCache(q) == IsPrefix(LocalCacheDir, q)
\* a path below a cache entry's child: .../<project>/<artifact>/<key>/<base>/...
EntryDepth == Len(GetArtifactCachePath(RootPath, "a", "k"))
InEntry(q) == InCache(q) /\ Len(q) > EntryDepth + 1
EntryArtifact(q) == q[EntryDepth - 1]
EntryRel(q) == SubSeq(q, EntryDepth + 2, Len(q))

\* rel, relative to a materialized path, is left out by SeedDirectory: it or
\* a directory above it matches a skip rule
SkippedRel(rel, kind, artifactName) ==
    \E i \in 1..Len(rel) :
        shouldSkipPath(RelString(SubSeq(rel, 1, i))
                       \o (IF i < Len(rel) \/ kind = "dir" THEN <<"/">> ELSE <<>>),
                       artifactName)

\* a described path of an artifact tree, relative to its materialized path
BelowPath(d, artifact) ==
    CHOOSE r \in {Rel(artifact.paths[j], d.rel) :
                    j \in {k \in 1..Len(artifact.paths) : IsPrefix(artifact.paths[k], d.rel)}} : TRUE

NodeArtifacts == {"npm", "yarn", "pnpm", "bun"}
\* what cleanNodeModulesBin removes
InBin(d, artifact) ==
    artifact.name \in NodeArtifacts /\ BelowPath(d, artifact) # <<>>
        /\ Head(BelowPath(d, artifact)) = ".bin"

\* hist[i] is a successful StoreToCache and hist[i+1], the last call so far,
\* a successful RestoreFromCache of the same entry
StoreThenRestore(i) ==
    /\ i + 1 = Len(hist) /\ \A p \in Procs : proc[p].pc = "idle"
    /\ hist[i].op = "Store" /\ hist[i].res = "ok"
    /\ hist[i + 1].op = "Restore" /\ hist[i + 1].res = "ok"
    /\ hist[i].ai = hist[i + 1].ai /\ hist[i].key = hist[i + 1].key

RestoredTree(i) == TreeAt(fs, inodes, hist[i + 1].env, cfg[hist[i].ai].paths)

----------------------------------------------------------------------------
(* C1 .. C3: concurrent calls on one cache key (Spec).                     *)

\* C1: when two processes run Sync concurrently for the same artifact and
\* the same not-yet-cached key, at most one of them moves (or copies) a
\* workspace tree into the cache entry; the other moves nothing.
C1_OneSyncMoves ==
    \A p, q \in Procs :
        (/\ p # q
         /\ proc[p].op = "Sync" /\ proc[q].op = "Sync"
         /\ proc[p].ai = proc[q].ai
         /\ proc[p].key # "" /\ proc[p].key = proc[q].key)
        => ~(proc[p].moved > 0 /\ proc[q].moved > 0)

\* the call has created or found free its place in the entry and has not yet
\* finished putting its tree there
Populating(p) ==
    \/ proc[p].op = "Store" /\ proc[p].pc \in {"store_rename", "store_link"}
    \/ proc[p].op = "Sync" /\ proc[p].pc \in {"move_rename", "move_copy", "move_link"}
    \/ proc[p].op = "Seed" /\ proc[p].pc \in {"seed_walk", "seed_mkdir", "seed_files"}

\* C2: concurrent StoreToCache, Sync and SeedFromRoot calls on the same cache
\* key are serialized by the advisory lock: at no time are two of them
\* mutating the same entry directory.
C2_MutationsSerialized ==
    \A p, q \in Procs :
        (p # q /\ Populating(p) /\ Populating(q)) => CachePath(proc[p]) # CachePath(proc[q])

\* the reader has found the entry directory present
HitSeen(r) ==
    /\ proc[r].op = "Restore"
    /\ proc[r].pc \in {"restore_src", "restore_remove", "seed_walk", "seed_mkdir",
                       "seed_files", "restore_fix"}

\* C3: cache entries are added atomically: once a reader has found the entry
\* directory present (a hit), no step of a writer adds anything to the entry,
\* which already holds every file it will hold when the writer finishes.
C3_EntryAddedAtomically ==
    [][\A r \in Procs :
          HitSeen(r) => Under(fs', CachePath(proc[r])) \subseteq Under(fs, CachePath(proc[r]))]_vars

----------------------------------------------------------------------------
(* C4 .. C10: calls made one after the other (SeqSpec).                    *)

\* C4: in every reachable state no cache entry holds a file that matches its
\* artifact's skip rules, whichever call created the entry.
C4_NoSkippedFileInCache ==
    \A q \in DOMAIN fs :
        (InEntry(q) /\ fs[q].kind # "dir")
        => ~shouldSkipPath(RelString(EntryRel(q)), EntryArtifact(q))

\* C5: StoreToCache and then RestoreFromCache of the same entry yields the
\* paths, file contents and symlink targets the workspace tree had before
\* the store, except that for the node package managers .bin is absent
\* (the cargo fix changes modification times only).
C5_RestoreYieldsStoredTree ==
    \A i \in 1..(Len(hist) - 1) :
        StoreThenRestore(i)
        => RestoredTree(i) = {d \in hist[i].pre : ~InBin(d, cfg[hist[i].ai])}

\* C5, amended: ... the tree the workspace had before the store without the
\* paths the artifact's skip rules leave out, except that for the node
\* package managers .bin is absent.
C5_RestoreYieldsStoredTreeButSkipped ==
    \A i \in 1..(Len(hist) - 1) :
        StoreThenRestore(i)
        => RestoredTree(i) =
              {d \in hist[i].pre :
                  /\ ~InBin(d, cfg[hist[i].ai])
                  /\ ~SkippedRel(BelowPath(d, cfg[hist[i].ai]), d.kind, cfg[hist[i].ai].name)}

\* a cargo tree with object files was stored and restored
C5_Witness ==
    \E i \in 1..(Len(hist) - 1) :
        /\ StoreThenRestore(i)
        /\ cfg[hist[i].ai].name = "cargo"
        /\ \E d \in hist[i].pre : d.kind = "file" /\ Base(d.rel) = "a.o"
        /\ \E d \in RestoredTree(i) : d.kind = "file" /\ Base(d.rel) = "lib"

\* C6: RestoreFromCache, with its post-restore fixes, leaves the content and
\* the modification time of every file of the cache, and of every file
\* outside the artifact paths it restores, unchanged.
C6_RestoreMutatesNoCacheFile ==
    [][\A p \in Procs :
          StepOf(p, "Restore")
          => \A q \in DOMAIN fs :
                (/\ fs[q].kind = "file"
                 /\ \A j \in 1..Len(Artifact(proc[p]).paths) :
                       ~IsPrefix(proc[p].env \o Artifact(proc[p]).paths[j], q))
                => /\ q \in DOMAIN fs' /\ fs'[q] = fs[q]
                   /\ inodes'[fs[q].ino] = inodes[fs[q].ino]]_vars

WriteStep(kinds) == Returns /\ hist'[Len(hist')].op \in kinds
\* every file but the written one keeps its content
OthersKeepContent ==
    \A q \in DOMAIN fs :
        (fs[q].kind = "file" /\ q # hist'[Len(hist')].env)
        => /\ q \in DOMAIN fs' /\ fs'[q].kind = "file"
           /\ inodes'[fs'[q].ino].content = inodes[fs[q].ino].content

SameInode(i, d) ==
    LET a == hist[i].env \o d.rel
        b == hist[i + 1].env \o d.rel
        c == GetArtifactCachePath(RootPath, cfg[hist[i].ai].name, hist[i].key) \o d.rel
    IN  /\ fileExists(fs, a) /\ fileExists(fs, b) /\ fileExists(fs, c)
        /\ fs[a].ino = fs[b].ino /\ fs[b].ino = fs[c].ino

Shared(i, d) ==
    /\ d.kind = "file"
    /\ ~SkippedRel(BelowPath(d, cfg[hist[i].ai]), d.kind, cfg[hist[i].ai].name)

\* C8: on a single device, after w1 stores an artifact and a sibling w2 with
\* the same key restores it, every regular file of the artifact that no skip
\* rule excludes has the same inode in w1, in w2 and in the cache entry.
C8_SameInodeEverywhere ==
    \A i \in 1..(Len(hist) - 1) :
        (StoreThenRestore(i) /\ ~xdev /\ hist[i].env # hist[i + 1].env)
        => \A d \in hist[i].pre : Shared(i, d) => SameInode(i, d)

\* C8, amended: ... every regular file of the artifact that no skip rule
\* excludes and that the post-restore fix does not remove (.bin of the node
\* package managers) has the same inode in w1, in w2 and in the cache entry.
C8_SameInodeButBin ==
    \A i \in 1..(Len(hist) - 1) :
        (StoreThenRestore(i) /\ ~xdev /\ hist[i].env # hist[i + 1].env)
        => \A d \in hist[i].pre :
              (Shared(i, d) /\ ~InBin(d, cfg[hist[i].ai])) => SameInode(i, d)

\* node_modules with a .bin script was stored by one workspace and restored
\* by the other; the library file is shared
C8_Witness ==
    \E i \in 1..(Len(hist) - 1) :
        /\ StoreThenRestore(i) /\ ~xdev /\ hist[i].env # hist[i + 1].env
        /\ \E d \in hist[i].pre : d.kind = "file" /\ InBin(d, cfg[hist[i].ai])
        /\ \E d \in hist[i].pre :
              Shared(i, d) /\ ~InBin(d, cfg[hist[i].ai]) /\ SameInode(i, d)

\* process p is in a Sync whose arguments are those of the call that
\* returned last: nothing happened in between
SecondSync(p) ==
    /\ proc[p].op = "Sync" /\ hist # <<>>
    /\ hist[Len(hist)].op = "Sync"
    /\ hist[Len(hist)].env = proc[p].env /\ hist[Len(hist)].hb = proc[p].hb

Locked(p) ==
    {i \in 1..Len(cfg) :
        /\ cfg[i].name = "cargo"
        /\ fileExists(fs, proc[p].env \o <<"target", ".cargo-lock">>)}

\* C10: if <workspace>/target/.cargo-lock exists when Sync is called with a
\* cargo artifact, Sync returns the build-in-progress error and changes
\* nothing on disk: no cache directory, no lock file, no tree moved.
C10_BuildInProgressChangesNothing ==
    [][\A p \in Procs :
          (StepOf(p, "Sync") /\ Locked(p) # {})
          => /\ fs' = fs /\ inodes' = inodes
             /\ Returns => Result = "build in progress"]_vars

\* the trees and the cache directories of the artifacts from index i on
Concerns(q, env, i) ==
    \E k \in i..Len(cfg) :
        \/ IsPrefix(GetProjectCacheDir(RootPath) \o <<cfg[k].name>>, q)
        \/ \E j \in 1..Len(cfg[k].paths) : IsPrefix(env \o cfg[k].paths[j], q)

\* C10, amended: ... Sync changes nothing for the cargo artifact and the
\* artifacts listed after it, and returns an error: the build-in-progress
\* error of the cargo artifact, unless an artifact listed before it, which
\* is synced first, has failed.
C10_BuildInProgressStopsAtCargo ==
    [][\A p \in Procs :
          (StepOf(p, "Sync") /\ Locked(p) # {})
          => /\ \A i \in Locked(p) :
                   \A q \in DOMAIN fs \cup DOMAIN fs' :
                       Concerns(q, proc[p].env, i)
                       => /\ q \in DOMAIN fs /\ q \in DOMAIN fs' /\ fs'[q] = fs[q]
                          /\ fs[q].kind = "file" => inodes'[fs[q].ino] = inodes[fs[q].ino]
             /\ Returns => /\ Result # "ok"
                           /\ \A i \in Locked(p) : hist'[Len(hist')].ai <= i
                           /\ hist'[Len(hist')].ai \in Locked(p)
                              => Result = "build in progress"]_vars

\* Sync returned the error at the cargo artifact, after it had moved the
\* tree of the artifact listed before it
C10_Witness ==
    /\ hist # <<>>
    /\ hist[Len(hist)].op = "Sync" /\ hist[Len(hist)].res = "build in progress"
    /\ hist[Len(hist)].ai = 2 /\ hist[Len(hist)].moved > 0
    /\ fileExists(fs, hist[Len(hist)].env \o <<"target", ".cargo-lock">>)

----------------------------------------------------------------------------
(* C11: a StoreToCache that fails (MaintSpec).                             *)

\* the errors StoreToCache returns
StoreErrors ==
    {"failed to create cache dir", "failed to move to cache",
     "failed to hardlink back from cache"}

\* C11: if StoreToCache returns an error, every workspace path of the entry
\* that existed before the call still exists afterwards, with all of its
\* files and their contents.
C11_FailedStoreKeepsWorkspace ==
    \A i \in 1..Len(hist) :
        (i = Len(hist) /\ hist[i].op = "Store" /\ hist[i].res \in StoreErrors)
        => hist[i].pre \subseteq TreeAt(fs, inodes, hist[i].env, cfg[hist[i].ai].paths)

----------------------------------------------------------------------------
(* C12: a SeedFromRoot whose replication fails (StallSpec).                *)

\* C12: if populating a cache entry fails part-way (SeedFromRoot's tree
\* replication fails), then after the call returns no cache entry directory
\* exists at that key's cache path, so that a later PrepareArtifactCache
\* reports a miss.
C12_FailedSeedLeavesNoEntry ==
    \A i \in 1..Len(hist) :
        (/\ i = Len(hist)
         /\ hist[i].op = "Seed" /\ hist[i].res = "failed to seed from root"
         /\ hist[i].key # "")
        => ~dirExists(fs, GetArtifactCachePath(RootPath, cfg[hist[i].ai].name, hist[i].key))

----------------------------------------------------------------------------
(* C13, C14: what SeedFromRoot leaves alone (SeqSpec).                     *)

\* p's SeedFromRoot is deciding whether to seed the artifact it has reached
SeedConsidering(p) ==
    /\ proc[p].op = "Seed" /\ proc[p].pc \in {"seed_art", "seed_root"}
    /\ proc[p].ai <= Len(cfg)

\* one of the four conditions holds for that artifact: root equals
\* workspace, an entry exists at the workspace's key, the root's fingerprint
\* differs from the workspace's, the root shows a build-in-progress marker
SkipCondition(p) ==
    LET P == proc[p]
        envKey == ComputeCacheKey(fs, inodes, cfg[P.ai], P.env)
        rootKey == ComputeCacheKey(fs, inodes, cfg[P.ai], RootPath)
    IN  \/ P.env = RootPath
        \/ /\ P.pc = "seed_art" /\ envKey # ""
           /\ dirExists(fs, GetArtifactCachePath(RootPath, cfg[P.ai].name, envKey))
        \/ envKey # "" /\ rootKey # "" /\ envKey # rootKey
        \/ cfg[P.ai].name = "cargo" /\ fileExists(fs, RootPath \o <<"target", ".cargo-lock">>)

\* C13: SeedFromRoot changes nothing on disk for an artifact when root
\* equals workspace, when a cache entry already exists at the workspace's
\* key, when the root's fingerprint differs from the workspace's, or when the
\* root shows a build-in-progress marker: it goes on to the next artifact.
\* Whenever it does change the disk, the root's fingerprint equals the
\* workspace's.
C13_SeedSkipsChangeNothing ==
    [][\A p \in Procs :
          StepOf(p, "Seed")
          => /\ (SeedConsidering(p) /\ SkipCondition(p))
                => /\ fs' = fs /\ inodes' = inodes
                   /\ proc'[p].pc \in {"seed_art", "seed_root", "idle"}
             /\ (fs' # fs \/ inodes' # inodes)
                => /\ ComputeCacheKey(fs, inodes, cfg[proc[p].ai], RootPath) # ""
                   /\ ComputeCacheKey(fs, inodes, cfg[proc[p].ai], RootPath)
                        = ComputeCacheKey(fs, inodes, cfg[proc[p].ai], proc[p].env)]_vars

\* SeedFromRoot has found the root built from another lock file than the
\* workspace's, with no entry at the workspace's key
C13_Witness ==
    \E p \in Procs :
        /\ SeedConsidering(p) /\ proc[p].pc = "seed_root"
        /\ dirExists(fs, RootPath \o cfg[proc[p].ai].paths[1])
        /\ ComputeCacheKey(fs, inodes, cfg[proc[p].ai], RootPath) # proc[p].key

\* the artifact trees of the project root, as an observer sees them
RootTrees(f, ino) == UNION {TreeAt(f, ino, RootPath, cfg[j].paths) : j \in 1..Len(cfg)}

\* C14: SeedFromRoot never disturbs the project root: no step of the call,
\* whether it returns an error or not, and no file operation it left behind
\* changes the paths, file contents or symlink targets of the root's
\* artifact trees.
C14_SeedKeepsRoot ==
    [][((\E p \in Procs : StepOf(p, "Seed")) \/ stalled' # stalled)
          => RootTrees(fs', inodes') = RootTrees(fs, inodes)]_vars

\* a SeedFromRoot that replicated a symlink of the root has returned an
\* error, and the root still holds its files
C14_Witness ==
    /\ hist # <<>>
    /\ hist[Len(hist)].op = "Seed" /\ hist[Len(hist)].res = "failed to seed from root"
    /\ \E q \in DOMAIN fs : InCache(q) /\ fs[q].kind = "link"
    /\ \E d \in RootTrees(fs, inodes) : d.kind = "file"

----------------------------------------------------------------------------
(* C15, C16: what SeedDirectory replicates (SeqSpec).                      *)

\* p's SeedDirectory(src, dst), called with dst absent, returns nil in this
\* step
SeedSucceeds(p) ==
    /\ proc[p].pc \in {"seed_mkdir", "seed_files"} /\ proc[p].fresh
    /\ proc'[p].pc \in {"restore_fix", "seed_path"}

\* rel lies beneath a directory that matches a skip rule
BeneathSkipped(rel, artifactName) ==
    \E i \in 1..(Len(rel) - 1) :
        shouldSkipPath(RelString(SubSeq(rel, 1, i)) \o <<"/">>, artifactName)

\* C15: after SeedDirectory(src, dst, opts) returns without error into an
\* absent dst, every regular file of src matching no skip rule exists at the
\* mirrored path in dst, every file matching a skip rule is absent from dst,
\* and no file beneath a skipped directory appears in dst.
C15_SeedDirectoryMirrorsUnskipped ==
    [][\A p \in Procs :
          SeedSucceeds(p)
          => LET src == proc[p].src
                 dst == proc[p].dst
                 name == cfg[proc[p].ai].name
             IN  /\ \A q \in Under(fs', src) :
                       fs'[q].kind = "file"
                       => IF shouldSkipPath(RelString(Rel(src, q)), name)
                          THEN dst \o Rel(src, q) \notin DOMAIN fs'
                          ELSE fileExists(fs', dst \o Rel(src, q))
                 /\ \A q \in Under(fs', dst) :
                       fs'[q].kind # "dir" => ~BeneathSkipped(Rel(dst, q), name)]_vars

\* SeedDirectory has replicated a cargo tree that holds an object file, an
\* incremental directory and a nested fingerprint file
C15_Witness ==
    \E p \in Procs :
        /\ proc[p].pc = "restore_fix" /\ proc[p].fresh
        /\ cfg[proc[p].ai].name = "cargo"
        /\ fileExists(fs, proc[p].src \o <<"a.o">>)
        /\ fileExists(fs, proc[p].src \o <<"incremental", "c">>)
        /\ fileExists(fs, proc[p].dst \o <<"debug", ".fingerprint", "k", "dep-x">>)
        /\ proc[p].dst \o <<"a.o">> \notin DOMAIN fs

\* The replications <<src, dst, name>> that return without error in this
\* step, into a dst that was absent: p's SeedDirectory (name: the artifact
\* whose skip rules it applies), HardlinkTree back into the workspace, or
\* the cross-device copyDir into the cache (name "": no skip rules).
ReplicationsDone(p) ==
    (IF SeedSucceeds(p)
     THEN {<<proc[p].src, proc[p].dst, cfg[proc[p].ai].name>>} ELSE {})
    \cup (IF /\ proc[p].pc \in {"store_link", "move_link"} /\ proc'[p].pc # "idle"
              /\ LocalPath(proc[p]) \notin DOMAIN fs
           THEN {<<TargetInCache(proc[p]), LocalPath(proc[p]), "">>} ELSE {})
    \cup (IF /\ proc[p].pc = "move_copy" /\ proc'[p].pc # "idle"
              /\ TargetInCache(proc[p]) \notin DOMAIN fs
           THEN {<<LocalPath(proc[p]), TargetInCache(proc[p]), "">>} ELSE {})

\* C16: every replication path (SeedDirectory, HardlinkTree, cross-device
\* copyDir) treats a source symlink as a symlink: after a successful
\* replication into an absent destination, the destination holds, for every
\* source symlink, a symlink with exactly the same literal target string.
C16_SymlinksReplicated ==
    [][\A p \in Procs : \A r \in ReplicationsDone(p) :
          \A q \in Under(fs, r[1]) :
              fs[q].kind = "link"
              => /\ r[2] \o Rel(r[1], q) \in DOMAIN fs'
                 /\ fs'[r[2] \o Rel(r[1], q)] = LinkNode(fs[q].target)]_vars

\* C16, amended: ... for every source symlink, in SeedDirectory for every
\* source symlink that the artifact's skip rules do not leave out, a symlink
\* with exactly the same literal target string.
C16_UnskippedSymlinksReplicated ==
    [][\A p \in Procs : \A r \in ReplicationsDone(p) :
          \A q \in Under(fs, r[1]) :
              (fs[q].kind = "link" /\ ~SkippedRel(Rel(r[1], q), "link", r[3]))
              => /\ r[2] \o Rel(r[1], q) \in DOMAIN fs'
                 /\ fs'[r[2] \o Rel(r[1], q)] = LinkNode(fs[q].target)]_vars

\* SeedDirectory has restored a cargo tree whose entry holds a symlink at
\* the top and one inside incremental/
C16_Witness ==
    \E p \in Procs :
        /\ proc[p].pc = "restore_fix" /\ proc[p].fresh
        /\ proc[p].src \o <<"incremental", "ln">> \in DOMAIN fs
        /\ fs[proc[p].src \o <<"incremental", "ln">>].kind = "link"
        /\ proc[p].dst \o <<"ln">> \in DOMAIN fs
        /\ fs[proc[p].dst \o <<"ln">>] = LinkNode("../real")

----------------------------------------------------------------------------
(* C17: HardlinkTree called on its own (TreeSpec).                         *)

\* HardlinkTree(src, dst) returns nil in this step
TreeLinked(src, dst) ==
    /\ Returns
    /\ hist'[Len(hist')].op = "HardlinkTree" /\ hist'[Len(hist')].res = "ok"
    /\ hist'[Len(hist')].entry = <<src, dst>>

\* the regular file q of src is, at d in dst, a file of equal content
EqualFile(q, d) ==
    /\ fileExists(fs', d)
    /\ inodes'[fs'[d].ino].content = inodes[fs[q].ino].content

\* ... one that shares q's inode on a single device, and across devices an
\* independent regular copy
LinkedOrCopied(q, d) ==
    IF CrossDevice(q, d)
    THEN fs'[d].ino # fs[q].ino /\ fs'[d].ino \notin DOMAIN inodes
    ELSE fs'[d].ino = fs[q].ino

\* C17: after HardlinkTree(src, dst) returns without error, every directory
\* and regular file of src exists at the mirrored path in dst with equal
\* content; a regular file that was linked shares its inode with the source
\* (single device), and is an independent regular copy when linking fails as
\* cross-device.
C17_HardlinkTreeMirrors ==
    [][\A src, dst \in DOMAIN fs' :
          TreeLinked(src, dst)
          => \A q \in Under(fs, src) :
                /\ fs[q].kind = "dir" => dirExists(fs', dst \o Rel(src, q))
                /\ fs[q].kind = "file"
                   => /\ EqualFile(q, dst \o Rel(src, q))
                      /\ dst \o Rel(src, q) \notin DOMAIN fs
                         => LinkedOrCopied(q, dst \o Rel(src, q))]_vars

\* C17, amended: ... every directory of src exists at the mirrored path in
\* dst, and every regular file of src whose mirrored path was free exists
\* there with equal content, sharing its inode with the source on a single
\* device and as an independent copy across devices; a file that was already
\* at a mirrored path is left as it is.  Into an absent dst the call
\* succeeds, across devices too.
C17_HardlinkTreeMirrorsFreePaths ==
    [][/\ \A src, dst \in DOMAIN fs' :
             TreeLinked(src, dst)
             => \A q \in Under(fs, src) :
                   /\ fs[q].kind = "dir" => dirExists(fs', dst \o Rel(src, q))
                   /\ fs[q].kind = "file"
                      => IF dst \o Rel(src, q) \in DOMAIN fs
                         THEN /\ fs'[dst \o Rel(src, q)] = fs[dst \o Rel(src, q)]
                              /\ fs[dst \o Rel(src, q)].kind = "file"
                                 => inodes'[fs[dst \o Rel(src, q)].ino]
                                      = inodes[fs[dst \o Rel(src, q)].ino]
                         ELSE /\ EqualFile(q, dst \o Rel(src, q))
                              /\ LinkedOrCopied(q, dst \o Rel(src, q))
       /\ (/\ Returns /\ hist'[Len(hist')].op = "HardlinkTree"
           /\ dirExists(fs, hist'[Len(hist')].entry[1])
           /\ hist'[Len(hist')].entry[2] \notin DOMAIN fs)
          => hist'[Len(hist')].res = "ok"]_vars

\* HardlinkTree has copied a tree to the other device: its files are there
\* under inodes of their own
C17_Witness ==
    /\ xdev /\ hist # <<>>
    /\ hist[Len(hist)].op = "HardlinkTree" /\ hist[Len(hist)].res = "ok"
    /\ hist[Len(hist)].entry = <<<<"p", "w1", "target">>, LocalCacheDir \o <<"tree">>>>
    /\ fileExists(fs, LocalCacheDir \o <<"tree", "debug", ".fingerprint", "k", "dep-x">>)
    /\ Nlink(fs, fs[LocalCacheDir \o <<"tree", "lib">>].ino) = 1

----------------------------------------------------------------------------
(* C18: a file operation that blocks forever (StallSpec).                  *)

\* p's last call so far returned the error of a file timeout
TimedOut(p) ==
    /\ proc[p].pc = "idle"
    /\ \E i \in 1..Len(hist) :
          /\ hist[i].env = EnvPath(p) /\ hist[i].err = "operation timed out"
          /\ hist[i].res \in {"failed to restore cache", "failed to seed from root"}
          /\ \A j \in (i + 1)..Len(hist) : hist[j].env # EnvPath(p)

\* C18: if one file's link-or-copy operation stalls forever, SeedDirectory
\* still returns: the worker abandons the wait after file_timeout and the
\* call returns a timeout error; it never blocks indefinitely, even though
\* the stalled operation may still be running in the background.
C18_StalledSeedReturns ==
    \A p \in Procs : (Waiting(p) # {}) ~> (TimedOut(p) /\ Waiting(p) = {})

\* a call has returned its timeout error while the operation it gave up is
\* still blocked
C18_Witness ==
    \E p \in Procs :
        /\ TimedOut(p)
        /\ \E t \in stalled : t.by = p /\ t.state = "abandoned"

----------------------------------------------------------------------------
(* C19, C20: the cache management commands (MaintSpec).                    *)

\* C19: after RemoveAllCache returns without error, GetCacheSizes returns an
\* empty list; and the entry count and total bytes RemoveAllCache returns
\* equal the number and the summed sizes of the entries GetCacheSizes listed
\* immediately before the removal.
C19_RemoveAllEmptiesAndCounts ==
    \A i \in 1..Len(hist) :
        (hist[i].op = "RemoveAllCache" /\ hist[i].res = "ok")
        => /\ (i = Len(hist) /\ Quiet) => GetCacheSizes(fs, inodes) = {}
           /\ (~overlap /\ i < Len(hist) /\ hist[i + 1].op = "GetCacheSizes")
              => hist[i + 1].list = {}
           /\ (~overlap /\ i > 1 /\ hist[i - 1].op = "GetCacheSizes")
              => /\ hist[i].count = Cardinality(hist[i - 1].list)
                 /\ hist[i].bytes = TotalSize(hist[i - 1].list)

\* GetCacheSizes listed the entries of two projects, three bytes each, and
\* RemoveAllCache then removed them
C19_Witness ==
    /\ Len(hist) = 2 /\ Quiet
    /\ hist[1].op = "GetCacheSizes" /\ Cardinality(hist[1].list) = 2
    /\ \E e \in hist[1].list : e.ProjectID = ComputeProjectID(<<"q">>) /\ e.Size = 3
    /\ hist[2].op = "RemoveAllCache" /\ hist[2].count = 2 /\ hist[2].bytes = 6
    /\ ~dirExists(fs, LocalCacheDir)

\* RemoveCacheEntry(project, artifact, key) returns in this step
EntryRemoved(e) ==
    /\ Returns
    /\ hist'[Len(hist')].op = "RemoveCacheEntry" /\ hist'[Len(hist')].entry = e

\* the path is there before and after the step, with the same node and, for
\* a regular file, the same content and modification time
Untouched(q) ==
    /\ q \in DOMAIN fs' /\ fs'[q] = fs[q]
    /\ fs[q].kind = "file" => inodes'[fs[q].ino] = inodes[fs[q].ino]

\* C20: RemoveCacheEntry(project, artifact, key) removes exactly that entry:
\* afterwards the entry directory is absent, every other entry (every other
\* path) is unchanged, the artifact directory is removed iff it is then
\* empty, the project directory is removed iff it is then empty, nothing is
\* created, and the call does not fail.
C20_RemovesExactlyTheEntry ==
    [][\A e \in Removable :
          EntryRemoved(e)
          => LET projectDir == LocalCacheDir \o <<e[1]>>
                 artifactDir == projectDir \o <<e[2]>>
                 entryDir == artifactDir \o <<e[3]>>
             IN  /\ hist'[Len(hist')].res = "ok"
                 /\ Under(fs', entryDir) = {}
                 /\ DOMAIN fs' \subseteq DOMAIN fs
                 /\ \A q \in DOMAIN fs :
                       (~IsPrefix(entryDir, q) /\ q \notin {artifactDir, projectDir})
                       => Untouched(q)
                 /\ dirExists(fs, artifactDir)
                    => (artifactDir \notin DOMAIN fs' <=> Children(fs', artifactDir) = {})
                 /\ dirExists(fs, projectDir)
                    => (projectDir \notin DOMAIN fs' <=> Children(fs', projectDir) = {})
                 /\ artifactDir \in DOMAIN fs' => Untouched(artifactDir)
                 /\ projectDir \in DOMAIN fs' => Untouched(projectDir)]_vars

\* the only entry of this project has been removed, and with it the
\* artifact and the project directory, while the other project's entry stays
C20_Witness ==
    /\ hist # <<>> /\ hist[Len(hist)].op = "RemoveCacheEntry"
    /\ hist[Len(hist)].entry = <<ComputeProjectID(RootPath), "cargo", "#old">>
    /\ ~dirExists(fs, GetProjectCacheDir(RootPath))
    /\ fileExists(fs, LocalCacheDir \o <<ComputeProjectID(<<"q">>), "cargo", "#k", "target", "lib">>)

----------------------------------------------------------------------------
(* C21: GetCacheSizes among concurrent removals (MaintSpec).               *)

\* GetCacheSizes returns in this step
ListingReturns ==
    Returns /\ hist'[Len(hist')].op = "GetCacheSizes"

\* C21: GetCacheSizes never fails because a directory is missing or
\* disappears while it enumerates: with no local cache directory it returns
\* the empty list without error, a directory that vanishes during the
\* enumeration is skipped, and the entries that were there at the call and
\* still are at the return are reported.
C21_ListingNeverFails ==
    [][ListingReturns
       => LET e == hist'[Len(hist')]
          IN  /\ e.res = "ok"
              /\ (\A p \in Procs : proc[p].op # "GetCacheSizes") => e.list = {}
              /\ \A x \in e.pre \cap GetCacheSizes(fs, inodes) : x \in e.list]_vars

----------------------------------------------------------------------------
(* C22, C23: the questions before a build (QuerySpec).                     *)

\* C22: CheckCargoBuildConflicts(root) returns an error whenever
\* <root>/target/.cargo-lock exists, and when ps cannot be run, or a matching
\* line of its output cannot be parsed into a PID and a command, that never
\* makes it return an error: it counts as no conflict detected.
C22_LockIsConflictPsFailureIsNot ==
    \A i \in 1..Len(hist) :
        hist[i].op = "CheckCargoBuildConflicts"
        => /\ (hist[i].env \o <<"target", ".cargo-lock">> \in DOMAIN fs
               /\ fs[hist[i].env \o <<"target", ".cargo-lock">>].kind = "file")
              => hist[i].res # "ok"
           /\ (hist[i].env \o <<"target", ".cargo-lock">> \notin DOMAIN fs /\ ~host.ps.ok)
              => hist[i].res = "ok"
           /\ (hist[i].env \o <<"target", ".cargo-lock">> \notin DOMAIN fs
               /\ host.ps.out \in {<<"c","a","r","g","o",":","/","p","\n">>,
                                   <<"c","a","r","g","o",":","/","p","\n",
                                     "9"," ","c","a","r","g","o"," ","/","q","\n">>})
              => hist[i].res = "ok"
           /\ hist[i].res = "found running cargo/rustc process(es)"
              => /\ host.ps.ok /\ hist[i].list # <<>>
                 /\ \A k \in 1..Len(hist[i].list) : hist[i].list[k] \in {<<"7">>, <<"8">>}

\* the check was made where ps fails and there is no lock file, where the
\* lock file exists, and where a line with one field names the project
C22_Witness ==
    /\ Len(hist) = 2
    /\ hist[1].op = "CheckCargoBuildConflicts" /\ hist[2].op = "CheckCargoBuildConflicts"
    /\ hist[1].res = "cargo lock file exists" /\ hist[2].res = "ok"
    /\ hist[2].env \o <<"target", ".cargo-lock">> \notin DOMAIN fs
    /\ (~host.ps.ok \/ host.ps.out = <<"c","a","r","g","o",":","/","p","\n">>)

\* the names of the variables a call of EnvVars returned
VarNames(e) == {e.list[k].name : k \in 1..Len(e.list)}

\* C23: EnvVars(cfg) returns nothing when the build strategy is "none"; for
\* every other strategy it contains CARGO_HOME, npm_config_cache,
\* YARN_CACHE_FOLDER and PNPM_HOME, and it contains RUSTC_WRAPPER=sccache and
\* SCCACHE_DIR, both, exactly when sccache is available and the
\* configuration permits it.
C23_EnvVarsOfStrategy ==
    \A i \in 1..Len(hist) :
        hist[i].op = "EnvVars"
        => IF host.build.Strategy = "none" THEN hist[i].list = <<>>
           ELSE /\ {"CARGO_HOME", "npm_config_cache", "YARN_CACHE_FOLDER", "PNPM_HOME"}
                       \subseteq VarNames(hist[i])
                /\ (host.sccache /\ host.build.Sccache # "false")
                   <=> [name |-> "RUSTC_WRAPPER", value |-> "sccache"]
                           \in {hist[i].list[k] : k \in 1..Len(hist[i].list)}
                /\ (host.sccache /\ host.build.Sccache # "false")
                   <=> "SCCACHE_DIR" \in VarNames(hist[i])

----------------------------------------------------------------------------
(* C24: the fingerprint (TreeSpec).                                        *)

\* the bytes of the strings of a sequence, one after the other
RECURSIVE Flat(_)
Flat(seq) == IF seq = <<>> THEN "" ELSE Head(seq) \o Flat(Tail(seq))

\* what the call of event e had to hash: the contents of the key files that
\* are there, in list order, then the key commands' output, in list order
KeyInput(e) ==
    Flat([k \in 1..Len(e.entry.keyFiles) |->
            LET path == e.env \o <<e.entry.keyFiles[k]>>
            IN  IF path \in DOMAIN fs /\ fs[path].kind = "file"
                THEN inodes[fs[path].ino].content ELSE ""])
    \o Flat([k \in 1..Len(e.entry.keyCommands) |-> CmdOutput[e.entry.keyCommands[k]]])

KeyEvents == {i \in 1..Len(hist) : hist[i].op = "ComputeCacheKey"}

\* no key file of the call is there and unreadable, and its key commands run
AllReadable(e) ==
    /\ \A k \in 1..Len(e.entry.keyFiles) :
          LET path == e.env \o <<e.entry.keyFiles[k]>>
          IN  path \in DOMAIN fs => fs[path].kind = "file"
    /\ \A k \in 1..Len(e.entry.keyCommands) : e.entry.keyCommands[k] \in tools

\* C24: ComputeCacheKey is a deterministic function of the concatenation of
\* the key files' contents (in list order, a missing file contributing
\* nothing and causing no error) followed by the key commands' output (in
\* list order): it returns a key, equal inputs give equal keys, inputs that
\* differ give different keys, and an artifact with no readable key file
\* and no command gets the key of the empty input.
C24_KeyIsFunctionOfInput ==
    \A i \in KeyEvents :
        /\ hist[i].res = "ok"
        /\ \A j \in KeyEvents : KeyInput(hist[i]) = KeyInput(hist[j]) <=> hist[i].key = hist[j].key
        /\ KeyInput(hist[i]) = "" => hist[i].key = Sha256Hex16("")

\* C24 amended: the same for calls none of whose key files is there and
\* unreadable (a directory) and whose key commands exit with zero; a key
\* file that is there and cannot be read makes the call fail.
C24_KeyIsFunctionOfReadableInput ==
    \A i \in KeyEvents :
        IF AllReadable(hist[i])
        THEN /\ hist[i].res = "ok"
             /\ \A j \in KeyEvents :
                   AllReadable(hist[j])
                   => (KeyInput(hist[i]) = KeyInput(hist[j]) <=> hist[i].key = hist[j].key)
             /\ KeyInput(hist[i]) = "" => hist[i].key = Sha256Hex16("")
        ELSE hist[i].res # "ok"

\* two calls with the same commands whose Cargo.lock differs in its one byte
\* gave two keys, the second descriptor naming a missing file first
C24_Witness ==
    /\ Len(hist) = 2 /\ KeyEvents = {1, 2}
    /\ hist[1].entry.keyFiles = <<"Cargo.lock">>
    /\ hist[2].entry.keyFiles = <<"absent.lock", "Cargo.lock">>
    /\ hist[1].entry.keyCommands = hist[2].entry.keyCommands
    /\ hist[1].env # hist[2].env
    /\ KeyInput(hist[1]) # KeyInput(hist[2])
    /\ hist[1].res = "ok" /\ hist[2].res = "ok" /\ hist[1].key # hist[2].key

----------------------------------------------------------------------------
(* C25: the cache lookup (SeqSpec).                                        *)

\* process p takes the PrepareArtifactCache step of its call
Prepares(p) == proc[p].pc = "prepare" /\ proc'[p] # proc[p]

\* the step reported hit: StoreToCache has nothing to do, RestoreFromCache
\* goes on to restore
ReportsHit(p) ==
    \/ proc'[p].pc = "restore_src"
    \/ Returns /\ Result = "hit"

\* the key files of the artifact, read in checkout env
LockBytes(env, artifact) == KeyFileBytes(fs, inodes, artifact.keyFiles, env)

\* C25: PrepareArtifactCache reports hit for an artifact if and only if the
\* directory <cache_local>/<project_id>/<artifact>/<key> exists for the key
\* computed in that workspace; where the key files' content differs from
\* that of an earlier call, the cache path differs from that call's, and
\* hit is false unless an entry for the new key is there.
C25_HitIffEntryDirectory ==
    [][\A p \in Procs :
          Prepares(p)
          => LET P == proc[p]
                 key == ComputeCacheKey(fs, inodes, Artifact(P), P.env)
                 cachePath == LocalCacheDir \o <<ComputeProjectID(RootPath), Artifact(P).name, key>>
             IN  key # ""
                 => /\ ReportsHit(p) <=> (cachePath \in DOMAIN fs /\ fs[cachePath].kind = "dir")
                    /\ \A i \in 1..Len(hist) :
                          (hist[i].key # "" /\ hist[i].ai = P.ai
                           /\ LockBytes(hist[i].env, Artifact(P)) # LockBytes(P.env, Artifact(P)))
                          => /\ GetArtifactCachePath(RootPath, Artifact(P).name, hist[i].key)
                                  # cachePath
                             /\ ReportsHit(p) => dirExists(fs, cachePath)]_vars

\* w1 stored its tree under the key of lock file "A"; the lookup in w2, whose
\* lock file reads "B", then missed, the entry of w1 being there
C25_Witness ==
    /\ Len(hist) = 2
    /\ hist[1].op = "Store" /\ hist[1].res = "ok" /\ hist[1].env = <<"p", "w1">>
    /\ hist[2].op = "Restore" /\ hist[2].res = "miss" /\ hist[2].env = <<"p", "w2">>
    /\ dirExists(fs, GetArtifactCachePath(RootPath, cfg[1].name, hist[1].key))
    /\ LockBytes(<<"p", "w1">>, cfg[1]) # LockBytes(<<"p", "w2">>, cfg[1])

----------------------------------------------------------------------------
(* C26: calls on different keys (Spec).                                    *)

\* the key a call in workspace env works on, for the first artifact
KeyIn(env) == ComputeCacheKey(fs, inodes, cfg[1], env)

\* the two workspaces have different keys
KeysDiffer ==
    /\ KeyIn(<<"p", "w1">>) # "" /\ KeyIn(<<"p", "w2">>) # ""
    /\ KeyIn(<<"p", "w1">>) # KeyIn(<<"p", "w2">>)

\* the paths of the cache entries of keys other than k, with the entries'
\* directories themselves
OtherEntries(f, k) ==
    {q \in DOMAIN f : InCache(q) /\ Len(q) >= EntryDepth /\ q[EntryDepth] # k
                      /\ q[EntryDepth] # k \o ".lock"}

Mutating(p) == proc[p].op \in {"Sync", "Store", "Seed"} /\ proc[p].key # ""

\* C26: operations on different cache keys are independent: a Sync,
\* StoreToCache or SeedFromRoot for key k never fails and never passes over
\* a path because another process holds the lock of, or is mutating, a
\* different key k', and none of its steps changes the entry of k'.
C26_DifferentKeysIndependent ==
    [][KeysDiffer
       => \A p \in Procs :
             /\ (Mutating(p) /\ proc'[p] # proc[p])
                => /\ OtherEntries(fs', proc[p].key) = OtherEntries(fs, proc[p].key)
                   /\ \A q \in OtherEntries(fs, proc[p].key) :
                         /\ fs'[q] = fs[q]
                         /\ fs[q].kind = "file"
                            => inodes'[fs[q].ino].content = inodes[fs[q].ino].content
             /\ (proc[p].pc = "move_lock" /\ proc'[p] # proc[p])
                => proc'[p].pc = "move_target"
             /\ (proc[p].op \in {"Sync", "Store", "Seed"} /\ proc'[p] # proc[p] /\ Returns)
                => Result \in {"ok", "hit"}]_vars

\* both processes hold the lock of their key at the same time, each about
\* to move its tree into its entry
C26_Witness ==
    /\ KeysDiffer
    /\ \A p \in Procs : proc[p].op = "Sync" /\ proc[p].pc = "move_rename"
                        /\ <<proc[p].lock, p>> \in flocks
    /\ proc["p1"].key # proc["p2"].key

----------------------------------------------------------------------------
(* C27: seeding from the root against storing a fresh build (SeqSpec).     *)

\* the root holds the tree a build produces: the trees that were stored or
\* synced before hist[i] were equal to the root's
RootAsBuilt(i) ==
    \A j \in 1..(i - 1) :
        (hist[j].op \in {"Store", "Sync"} /\ hist[j].pre # {})
            => hist[j].pre = TreeAt(fs, inodes, RootPath, cfg[hist[i + 1].ai].paths)

\* hist[i] is a successful SeedFromRoot and hist[i+1], the last call so far,
\* a successful RestoreFromCache in the same workspace, of an entry whose
\* key is the root's fingerprint
SeedThenRestore(i) ==
    /\ i + 1 = Len(hist) /\ \A p \in Procs : proc[p].pc = "idle"
    /\ hist[i].op = "Seed" /\ hist[i].res = "ok"
    /\ hist[i + 1].op = "Restore" /\ hist[i + 1].res = "ok"
    /\ hist[i].env = hist[i + 1].env
    /\ hist[i + 1].key = ComputeCacheKey(fs, inodes, cfg[hist[i + 1].ai], RootPath)
    /\ RootAsBuilt(i)

\* what StoreToCache and then RestoreFromCache leave of a freshly built
\* tree: the tree without the paths the skip rules leave out and, for the
\* node package managers, without .bin
StoredAndRestored(tree, artifact) ==
    {d \in tree : /\ ~InBin(d, artifact)
                  /\ ~SkippedRel(BelowPath(d, artifact), d.kind, artifact.name)}

\* C27: when the root's fingerprint equals the workspace's, SeedFromRoot
\* followed by RestoreFromCache gives the workspace the materialization
\* (paths, contents, symlink targets) that a build of the root's tree in
\* the workspace, then StoreToCache followed by RestoreFromCache, gives.
C27_SeedRestoreAsStoreRestore ==
    \A i \in 1..(Len(hist) - 1) :
        /\ SeedThenRestore(i)
           => TreeAt(fs, inodes, hist[i + 1].env, cfg[hist[i + 1].ai].paths) =
                 StoredAndRestored(TreeAt(fs, inodes, RootPath, cfg[hist[i + 1].ai].paths),
                                   cfg[hist[i + 1].ai])
        /\ StoreThenRestore(i)
           => RestoredTree(i) = StoredAndRestored(hist[i].pre, cfg[hist[i].ai])

\* the root's cargo tree, with object files and an incremental directory,
\* was seeded and restored into a workspace
C27_Witness ==
    /\ Len(hist) = 2 /\ SeedThenRestore(1)
    /\ cfg[hist[2].ai].name = "cargo"
    /\ \E d \in TreeAt(fs, inodes, RootPath, cfg[hist[2].ai].paths) : Base(d.rel) = "a.o"
    /\ \E d \in TreeAt(fs, inodes, hist[2].env, cfg[hist[2].ai].paths) :
          d.kind = "file" /\ Base(d.rel) = "dep-x"

----------------------------------------------------------------------------
(* C28 .. C30: Sync.                                                       *)

\* the description of the tree at path in filesystem f, relative to path
TreeOf(f, ino, path) == {Describe(f, ino, path, q) : q \in Under(f, path)}

\* process p returns from Sync without an error in this step
SyncSucceeds(p) ==
    /\ proc[p].op = "Sync" /\ proc'[p].pc = "idle" /\ proc[p].pc # "idle"
    /\ Returns /\ Result = "ok"

\* of the trees Sync found not cached, the one at path, relative to path
TreeFound(P, path) ==
    {[d EXCEPT !.rel = Rel(path, d.rel)] : d \in {x \in P.pre : IsPrefix(path, x.rel)}}

\* the path of artifact a in workspace env is, in the next state, in the
\* cache entry under its base name as it was found; with hardlink-back it is
\* also in the workspace with every regular file on the inode of the cache
\* copy, without hardlink-back it is gone from the workspace
MovedIntoEntry(P, a, path) ==
    LET local == P.env \o path
        key == ComputeCacheKey(fs, inodes, a, P.env)
        cache == GetArtifactCachePath(RootPath, a.name, key) \o <<Base(path)>>
    IN  /\ TreeOf(fs', inodes', cache) = TreeFound(P, path)
        /\ IF P.hb
           THEN /\ TreeOf(fs', inodes', local) = TreeFound(P, path)
                /\ \A q \in Under(fs', local) :
                       fs'[q].kind = "file" =>
                           fs'[cache \o Rel(local, q)].ino = fs'[q].ino
           ELSE local \notin DOMAIN fs'

SyncMovesFound(p) ==
    (SyncSucceeds(p) /\ ~xdev) =>
        \A ai \in 1..Len(cfg) : \A j \in 1..Len(cfg[ai].paths) :
            TreeFound(proc[p], cfg[ai].paths[j]) # {} =>
                MovedIntoEntry(proc[p], cfg[ai], cfg[ai].paths[j])

\* C28: after a successful Sync of a not-yet-cached key on a single device,
\* each workspace path that existed has been moved into the cache entry under
\* its base name; with hardlink_back the workspace path exists again with the
\* same files, every regular file sharing its inode with the cache copy, and
\* without hardlink_back the workspace path no longer exists.
C28_SyncMovesEveryPath == [][\A p \in Procs : SyncMovesFound(p)]_vars

BaseNamesDiffer(a) ==
    \A i, j \in 1..Len(a.paths) : Base(a.paths[i]) = Base(a.paths[j]) => i = j

\* C28, amended: the same, for a Sync that runs while no other cache
\* operation is in progress, of an artifact whose paths have different base
\* names.
C28_SyncAloneMovesEveryPath ==
    [][\A p \in Procs :
          (~overlap /\ \A ai \in 1..Len(cfg) : BaseNamesDiffer(cfg[ai])) => SyncMovesFound(p)]_vars

\* a Sync with hardlink-back has returned without an error after moving both
\* paths of an artifact on a single device, and both are in the workspace
\* and in the cache entry
C28_Witness ==
    \E i \in 1..Len(hist) :
        /\ hist[i].op = "Sync" /\ hist[i].res = "ok" /\ hist[i].hb /\ hist[i].moved = 2
        /\ ~xdev /\ ~overlap /\ BaseNamesDiffer(cfg[1])
        /\ \A j \in 1..Len(cfg[1].paths) :
               /\ dirExists(fs, hist[i].env \o cfg[1].paths[j])
               /\ dirExists(fs, GetArtifactCachePath(RootPath, cfg[1].name, hist[i].key)
                                    \o <<Base(cfg[1].paths[j])>>)

\* process p returns from Sync in this step because hardlinking the moved
\* tree back into the workspace failed
HardlinkBackFails(p) ==
    /\ proc[p].op = "Sync" /\ proc[p].pc = "move_link" /\ proc'[p].pc = "idle"
    /\ Returns /\ Result \in {"failed to hardlink back and recovery failed",
                           "failed to hardlink back, recovered"}

\* a regular file of content c is at path in the next state
FileKept(path, c) ==
    /\ path \in DOMAIN fs' /\ fs'[path].kind = "file"
    /\ inodes'[fs'[path].ino].content = c

\* every regular file of the tree Sync found at the current path is, in the
\* next state, at its workspace path or in the cache entry
NoFileLost(P) ==
    LET path == cfg[P.ai].paths[P.pi]
    IN  \A d \in TreeFound(P, path) :
            d.kind = "file" =>
                \/ FileKept(P.env \o path \o d.rel, d.content)
                \/ FileKept(CachePath(P) \o <<Base(path)>> \o d.rel, d.content)

\* the error Sync returns says that the recovery renamed the cache copy back
Recovered == Result = "failed to hardlink back, recovered"

\* C29: if hardlinking back into the workspace fails during Sync with
\* hardlink_back, no artifact data is lost: after Sync returns its error,
\* every file of the original workspace tree is still present at its
\* workspace path or in the cache entry, and when the rename-back recovery
\* succeeds the workspace tree is fully restored and the cache entry
\* directory is gone.
C29_HardlinkBackFailureLosesNothing ==
    [][\A p \in Procs :
          HardlinkBackFails(p) =>
              /\ NoFileLost(proc[p])
              /\ Recovered =>
                    /\ TreeOf(fs', inodes', proc[p].env \o cfg[proc[p].ai].paths[proc[p].pi])
                           = TreeFound(proc[p], cfg[proc[p].ai].paths[proc[p].pi])
                    /\ CachePath(proc[p]) \notin DOMAIN fs']_vars

\* nothing but Sync has been called, and nothing else is running
OnlySyncs ==
    /\ \A i \in 1..Len(hist) : hist[i].op = "Sync"
    /\ \A p \in Procs : proc[p].op \in {"", "Sync"}

\* process p, in Sync, puts the tree at its current path into the cache
\* entry in this step
MovesIntoEntry(p) ==
    /\ proc[p].op = "Sync" /\ proc'[p].op = "Sync"
    /\ proc'[p].moved = proc[p].moved + 1

\* the children of the cache entry that process p works on
ChildrenOfEntry(f, P) == {q \in Children(f, CachePath(P)) : f[q].kind = "dir"}

\* C30: when an artifact has several materialized paths and two workspaces
\* with the same key run Sync concurrently, the children of the resulting
\* cache entry all come from one and the same workspace: whenever a Sync
\* puts a child into the entry, every child of the entry has been put there
\* by this Sync.
C30_EntryFromOneWorkspace ==
    [][\A p \in Procs :
          (OnlySyncs /\ Len(cfg) = 1 /\ MovesIntoEntry(p)) =>
              Cardinality(ChildrenOfEntry(fs', proc[p])) = proc'[p].moved]_vars

----------------------------------------------------------------------------
(* C31: RestoreFromCache of an entry without the path's tree (SeqSpec).    *)

\* process p, restoring, is about to replicate the source of its current
\* path, and the cache entry has neither <entry>/<base name> nor
\* <entry>/<artifact name> as a directory
RestoresWithoutSource(p) ==
    /\ StepOf(p, "Restore") /\ proc[p].pc = "seed_walk"
    /\ ~dirExists(fs, CachePath(proc[p]) \o <<Base(proc[p].dst)>>)
    /\ ~dirExists(fs, CachePath(proc[p]) \o <<Artifact(proc[p]).name>>)

\* the paths of the filesystem f beneath the workspace paths that come after
\* the current one in the entry's list, with what they name
LaterPaths(f, P) ==
    [q \in UNION {Under(f, P.env \o Artifact(P).paths[j]) :
                     j \in (P.pi + 1)..Len(Artifact(P).paths)} |-> f[q]]

----------------------------------------------------------------------------
(* C32 .. C34, C37: the workers of SeedDirectory (PoolSpec).               *)

SeedDirectoryEvents == {i \in 1..Len(hist) : hist[i].op = "SeedDirectory"}
Seeding == {p \in Procs : proc[p].pc = "pool"}
Busy(p) == {w \in DOMAIN proc[p].pool.w : proc[p].pool.w[w].st = "busy"}

FileFailed(e) == e.entry.firstErr # <<>>

\* C33: if any worker's per-file operation fails, SeedDirectory never
\* returns Ok: exactly one error is recorded (the first failure wins), and
\* that error, naming the failing file, is the one returned rather than a
\* no-progress error.
C33_FileErrorIsReturned ==
    \A i \in SeedDirectoryEvents :
        FileFailed(hist[i]) =>
            /\ hist[i].res # "ok"
            /\ hist[i].entry.onceRuns = 1
            /\ hist[i].res = "failed to link"

\* C34: whenever the progress watchdog cancels the workers' shared token,
\* SeedDirectory returns the "no progress" error, and it returns that error
\* only in that case.
C34_NoProgressIffWatchdog ==
    \A i \in SeedDirectoryEvents :
        hist[i].entry.fired <=> hist[i].res = "seeding timed out: no progress"

\* no file occurs twice among the files the workers took
TakenOnce(taken) ==
    \A i, j \in 1..Len(taken) : taken[i][2] = taken[j][2] => i = j

\* C37: in SeedDirectory's apply phase every collected file is taken from
\* the queue by at most one worker, and when the call returns Ok every
\* collected file has been processed exactly once, for any number of workers
\* and any interleaving.
C37_EachFileOnce ==
    /\ \A p \in Seeding : TakenOnce(proc[p].pool.taken)
    /\ \A i \in SeedDirectoryEvents :
          /\ TakenOnce(hist[i].entry.taken)
          /\ hist[i].res = "ok"
             => /\ {hist[i].entry.processed[k] : k \in 1..Len(hist[i].entry.processed)}
                      = hist[i].entry.files
                /\ Len(hist[i].entry.processed) = Cardinality(hist[i].entry.files)

\* a call with three workers returned Ok, its two files taken by two of them
C37_Witness ==
    \E i \in SeedDirectoryEvents :
        /\ hist[i].res = "ok" /\ hist[i].entry.workers = 3
        /\ Cardinality(hist[i].entry.files) = 2
        /\ Cardinality({hist[i].entry.taken[k][1] : k \in 1..Len(hist[i].entry.taken)}) = 2

----------------------------------------------------------------------------
(* C35, C36: the advisory lock of Sync (LockSpec).                         *)

\* process p holds the lock it took in moveToCache
Holds(p) == proc[p].op = "Sync" /\ proc[p].lock # 0 /\ <<proc[p].lock, p>> \in flocks

\* process p is about to flock the lock file of its entry, and the file at
\* that path is locked
FindsLockHeld(p) ==
    /\ StepOf(p, "Sync") /\ proc[p].pc = "move_lock"
    /\ LockPath(CachePath(proc[p])) \in DOMAIN fs
    /\ \E l \in flocks : l[1] = fs[LockPath(CachePath(proc[p]))].ino

\* ... and no lock is held on any lock file
FindsLockFree(p) ==
    /\ StepOf(p, "Sync") /\ proc[p].pc = "move_lock"
    /\ flocks = {}

\* a caller that finds the lock held goes on to its next path without an
\* error and without having changed a tree; a caller that finds it free
\* takes it
NonBlocking ==
    [][\A p \in Procs :
          /\ FindsLockHeld(p)
             => /\ ~Returns /\ proc'[p].pc = "sync_path" /\ proc'[p].pi = proc[p].pi + 1
                /\ proc'[p].moved = proc[p].moved /\ flocks' = flocks
                /\ \A q \in DOMAIN fs : q \in DOMAIN fs' /\ fs'[q] = fs[q]
          /\ FindsLockFree(p)
             => proc'[p].pc = "move_target" /\ <<proc'[p].lock, p>> \in flocks']_vars

\* at most one caller holds the lock of a cache entry path
OneHolder ==
    \A p, q \in Procs :
        (Holds(p) /\ Holds(q) /\ CachePath(proc[p]) = CachePath(proc[q])) => p = q

\* C35: the advisory lock is non-blocking and mutually exclusive: at any
\* time at most one caller holds the lock of a given cache entry path; a
\* caller that finds it held gets a null handle with no error and skips its
\* guarded operation; and after the holder releases, a later acquire
\* succeeds.
C35_LockExcludes == []OneHolder /\ NonBlocking

\* C36: every return path of Sync releases the advisory lock it acquired:
\* once a Sync call has returned, with or without error, it holds no lock on
\* any <entry>.lock, so a later acquire by any process succeeds.
C36_SyncReturnsUnlocked ==
    \A p \in Procs : proc[p].pc = "idle" => \A l \in flocks : l[2] # p

\* every call has returned, one of them a Sync that came back from the failed
\* recovery or, on two devices, from the copy; its lock file is there and
\* nobody holds a lock
C36_Witness ==
    /\ flocks = {} /\ \A p \in Procs : proc[p].pc = "idle"
    /\ \E i \in 1..Len(hist) :
          /\ hist[i].op = "Sync"
          /\ \/ hist[i].res = "failed to hardlink back and recovery failed"
             \/ xdev /\ hist[i].moved = 1
          /\ fileExists(fs, LockPath(GetArtifactCachePath(RootPath, cfg[1].name, hist[i].key)))

----------------------------------------------------------------------------
(* C38 .. C40: port allocation (PortSpec).                                 *)

Allocations == {i \in 1..Len(hist) : hist[i].op = "Allocate"}

\* the host port of every (service, container port) pair of a result
HostPortOf(e) ==
    {<<e.res[k].Service, e.res[k].ContainerPort, e.res[k].HostPort>> : k \in DOMAIN e.res}

HostPorts(e) == {e.res[k].HostPort : k \in DOMAIN e.res}

\* C38: port allocation is deterministic: two calls of Allocate (of one
\* build) with the same environment name and the same service-to-ports map
\* return the same host port for every (service, container port) pair,
\* whatever order the services are iterated in.
C38_AllocateDeterministic ==
    \A i, j \in Allocations :
        (/\ hist[i].env = hist[j].env /\ hist[i].servicePorts = hist[j].servicePorts
         /\ hist[i].bits = hist[j].bits)
        => HostPortOf(hist[i]) = HostPortOf(hist[j])

\* ... which holds of two calls that visit the services in the same order
SameOrderSamePorts ==
    \A i, j \in Allocations :
        (/\ hist[i].env = hist[j].env /\ hist[i].servicePorts = hist[j].servicePorts
         /\ hist[i].bits = hist[j].bits /\ hist[i].order = hist[j].order)
        => hist[i].res = hist[j].res

\* within one result the host ports are pairwise distinct
DistinctInResult ==
    \A i \in Allocations :
        \A k, l \in DOMAIN hist[i].res :
            hist[i].res[k].HostPort = hist[i].res[l].HostPort => k = l

\* C39: host ports never conflict: within one Allocate result all host ports
\* are pairwise distinct, and the host ports allocated to two different
\* environment names are disjoint.
C39_NoPortConflict ==
    /\ DistinctInResult
    /\ \A i, j \in Allocations :
          hist[i].env # hist[j].env => HostPorts(hist[i]) \cap HostPorts(hist[j]) = {}

\* C40: every host port returned by Allocate lies inside the environment's
\* own slot, basePort <= hostPort < basePort + PortRangePerWorktree with
\* basePort = BasePort + slot * PortRangePerWorktree and
\* 0 <= slot < MaxPortSlots, and never exceeds MaxPort.
C40_PortInsideSlot ==
    \A i \in Allocations :
        LET slot == Slot(hist[i].env, hist[i].bits)
            basePort == BasePort + slot * PortRangePerWorktree
        IN  /\ 0 <= slot /\ slot < MaxPortSlots
            /\ \A p \in HostPorts(hist[i]) :
                  /\ basePort <= p /\ p < basePort + PortRangePerWorktree
                  /\ p <= MaxPort

\* ... as the ports of a 64-bit build do when the map has at most
\* PortRangePerWorktree ports
FewPortsInsideSlot ==
    \A i \in Allocations :
        (hist[i].bits = 64 /\ Len(hist[i].res) <= PortRangePerWorktree)
        => LET basePort == BasePort + Slot(hist[i].env, 64) * PortRangePerWorktree
           IN  /\ Slot(hist[i].env, 64) \in 0..(MaxPortSlots - 1)
               /\ \A p \in HostPorts(hist[i]) :
                     basePort <= p /\ p < basePort + PortRangePerWorktree /\ p <= MaxPort

====
